---- MODULE Spec2Model ----
(***************************************************************************)
(* A model of the agent runtime of agents/code-analysis:                   *)
(*   - the Planner -> Executor -> Reviewer loop with its checkpoints       *)
(*     (loop.py, agents/*.py, state.py), under process crashes;            *)
(*   - the PolicyManager's budgets, lock and signal-driven reload           *)
(*     (policies.py, runtime.py) and the Guardrails that read it            *)
(*     (guardrails.py);                                                     *)
(*   - the MCP client: rate limiter, invoke and health probes (mcp.py);    *)
(*   - the CheckpointStore and the MetricsRecorder (state.py);             *)
(*   - the ToolInvoker (tools/invoker.py).                                 *)
(* Each part has its own next-state relation over the shared variables.    *)
(***************************************************************************)
EXTENDS Integers, Sequences, FiniteSets, TLC

(***************************************************************************)
(* Bounds of the model.                                                    *)
(***************************************************************************)
\* Process starts (run()/resume() invocations) in one behaviour.
MaxStarts == 2

VARIABLES
    \* ---- disk (survives a crash) --------------------------------------
    checkpoints,     \* CheckpointStore: stage -> file content
    latest_review,   \* audit/latest_review.json
    metrics_file,    \* metrics.json
    log,             \* audit/run-<id>.jsonl: the kinds of the events appended
    \* ---- memory of the running process (lost in a crash) --------------
    pc,              \* position in run()/resume(); "stopped": no process
    mode,            \* "run" or "resume": the orchestrator method running
    session,         \* the AgentSession in hand
    observations,    \* ExecutorAgent.execute: local list
    offset,          \* ExecutorAgent.execute: loop variable (1-based)
    role,            \* BaseSDKAgent.ask: role_name of the agent asking
    response,        \* BaseSDKAgent.ask: the reply in hand
    metrics_data,    \* MetricsRecorder.data
    io,              \* file operations of the current statement still to do
    \* ---- history (not program state) ----------------------------------
    starts,          \* processes started so far
    outcome,         \* how the last process ended
    calls,           \* model calls issued by the current/last process
    resumeFrom,      \* current_step loaded by resume(), -1 if none
    roundTrips,      \* executor round-trips completed for the current plan
    planSaved,       \* the planner's "session" checkpoint is on disk
    crashedAfterPlan,\* the last process crashed while planSaved
    lostAt,          \* roundTrips at that crash
    done,            \* snapshot of the "session" checkpoint at Done
    doneResumes,     \* resume() calls started since Done
    \* ---- PolicyManager (policies.py) -----------------------------------
    _lock,           \* threading.Lock: "none", or the frame holding it
    _tool_calls,
    _token_usage,
    tools_policy,
    network_policy,
    paths_policy,
    \* ---- callers of the PolicyManager and the Guardrails ----------------
    frame,           \* per thread: the call in progress and its locals
    result,          \* per thread: how its last call ended
    handler,         \* the SIGHUP handler's position in reload(); runs on "main"
    \* ---- history (not program state) ----------------------------------
    ops,             \* calls started so far
    reloads,         \* signals delivered so far
    failedReloads,   \* reload() calls that raised
    installed,       \* the rule sets each completed load/reload installed
    policy_dir,      \* the documents the policy files may hold
    entered,         \* authorize_tool calls that took the lock since the reset
    added,           \* increments of _tool_calls performed since the reset
    addedTokens,     \* tokens added to _token_usage since the reset
    passed           \* budget checks passed since tools_policy was replaced

diskVars == <<checkpoints, latest_review, metrics_file, log>>
memVars  == <<pc, mode, session, observations, offset, role, response, metrics_data, io>>
histVars == <<starts, outcome, calls, resumeFrom, roundTrips, planSaved,
              crashedAfterPlan, lostAt, done, doneResumes>>
orchVars == <<diskVars, memVars, histVars>>

VARIABLES
    \* -- MCPClientManager --
    now,             \* time.monotonic(), in seconds
    _endpoints,      \* endpoint -> profile (transport, rate_limit_per_minute)
    state,           \* whether the manager was given a StateManager to log to
    _limiters,       \* endpoint -> RateLimiter (limit, events)
    _states,         \* endpoint -> EndpointState
    mcp_log,         \* the mcp_invoke events logged
    reply,           \* how the last invoke ended
    report,          \* what the last health_report returned
    mcall,           \* thread -> its invoke in progress, when calls overlap
    \* -- history --
    history,         \* every invoke that reached the limiter: when, and whether admitted
    invokes,         \* invoke calls made
    probed           \* the endpoints health_report has probed

policyVars == <<_lock, _tool_calls, _token_usage, tools_policy, network_policy,
                paths_policy, frame, result, handler, ops, reloads, failedReloads,
                installed, policy_dir, entered, added, addedTokens, passed>>

mcpVars == <<now, _endpoints, state, _limiters, _states, mcp_log, reply, report, mcall,
             history, invokes, probed>>
VARIABLES
    \* -- CheckpointStore --
    store_path,      \* self.path: stage -> the file <stage>.json
    loaded,          \* what the last load_checkpoint returned
    \* -- history --
    expected,        \* the payload last saved under the stage of that load
    last_saved,      \* stage -> the payload last saved under it
    saved_count,     \* stage -> save_checkpoint calls made for it
    saves,           \* save_checkpoint calls made
    \* -- ToolInvoker, with the StateManager it logs to --
    tool_log,        \* the events invoke appended
    tool_metrics,    \* MetricsRecorder.data
    \* -- history --
    tool_history,    \* every invoke call: the tool and how the call ended
    tool_invokes,    \* invoke calls made
    violations,      \* every PolicyViolation raised: by whom, and the log's length then
    usages,          \* _record_usage calls made
    \* -- the workspace the local tools act on --
    workspace_files, \* the paths written by a tool
    spawned,         \* the commands spawned by a tool
    tool_runs,       \* history: every invoke of a concrete tool, with its checks
    \* -- AgentsGateway.run --
    gw,              \* where run is: the flow, the request, attempt, delay, iterations
    \* -- history --
    gw_attempts,     \* how each attempt of the current request ended
    gw_sleeps,       \* the delays slept between them
    gw_outputs       \* the tool outputs run collected
storeVars == <<store_path, loaded, expected, last_saved, saved_count, saves>>
invokerVars == <<tool_log, tool_metrics, tool_history, tool_invokes, violations, usages,
                 workspace_files, spawned, tool_runs>>
gatewayVars == <<gw, gw_attempts, gw_sleeps, gw_outputs>>
toolVars == <<storeVars, invokerVars, gatewayVars>>
vars == <<orchVars, policyVars, mcpVars, toolVars>>
nonOrchVars == <<policyVars, mcpVars, toolVars>>
nonPolicyVars == <<orchVars, mcpVars, toolVars>>
nonMcpVars == <<orchVars, policyVars, toolVars>>
nonToolVars == <<orchVars, policyVars, mcpVars>>

(***************************************************************************)
(* Values.                                                                 *)
(***************************************************************************)
Stages == {"plan", "session", "execution", "review"}
Goal == "goal"
NoSummary == "None"

Absent == [kind |-> "absent"]
Torn == [kind |-> "torn"]
File(d) == [kind |-> "data", data |-> d]

NoSession == [goal |-> "", plan_steps |-> <<>>, observations |-> <<>>,
              summary |-> NoSummary, current_step |-> 0]
NoResponse == [to |-> 0, text |-> ""]

\* AgentSession(goal=goal, plan_steps=steps)
AgentSession(goal, steps) ==
    [goal |-> goal, plan_steps |-> steps, observations |-> <<>>,
     summary |-> NoSummary, current_step |-> 0]

\* AgentSession.to_dict / from_dict: every field is written and read back.
to_dict(s) ==
    [goal |-> s.goal, plan_steps |-> s.plan_steps, observations |-> s.observations,
     summary |-> s.summary, current_step |-> s.current_step]
from_dict(d) ==
    [goal |-> d.goal, plan_steps |-> d.plan_steps, observations |-> d.observations,
     summary |-> d.summary, current_step |-> d.current_step]

(***************************************************************************)
(* The planner's reply and PlannerAgent._extract_steps.  A reply is a      *)
(* sequence of lines; a line is numbered/bulleted or not, and carries a    *)
(* text that may be blank.  The replies the backend may give:              *)
(***************************************************************************)
Item(t) == [numbered |-> TRUE, text |-> t]
Plain(t) == [numbered |-> FALSE, text |-> t]
RawResponses ==
    { <<>>,                                   \* a blank reply
      <<Plain("just do it")>>,                \* no list at all
      <<Item("")>>,                           \* a list marker and nothing else
      <<Item("a")>>,
      <<Plain("Steps:"), Item("a"), Item(""), Item("b")>> }

RECURSIVE Matches(_)
Matches(raw) ==
    IF raw = <<>> THEN <<>>
    ELSE LET l == Head(raw)
         IN (IF l.numbered /\ l.text # "" THEN <<l.text>> ELSE <<>>) \o Matches(Tail(raw))

\* raw.strip(): blank exactly when the reply has no line at all.
Strip(raw) == IF raw = <<>> THEN "" ELSE "whole reply"

_extract_steps_matches_only(raw) == Matches(raw)

\* return cleaned or [raw.strip() or "Review goal"]
_extract_steps(raw) ==
    LET cleaned == Matches(raw)
    IN IF cleaned # <<>> THEN cleaned
       ELSE <<IF Strip(raw) # "" THEN Strip(raw) ELSE "Review goal">>

(***************************************************************************)
(* Replies of the executor and the reviewer.  An executor reply carries    *)
(* the step number of the prompt it answers.                               *)
(***************************************************************************)
ExecTexts == {"obs"}
ReviewTexts == {"PASS", "retry"}

(***************************************************************************)
(* File operations.  Path.write_text opens the file for writing, which     *)
(* truncates it, and then writes: two steps with a crash possible between. *)
(***************************************************************************)
save_checkpoint(stage, data) ==
    << [op |-> "truncate", file |-> stage],
       [op |-> "write", file |-> stage, data |-> data] >>

write_audit(data) ==
    << [op |-> "truncate", file |-> "latest_review"],
       [op |-> "write", file |-> "latest_review", data |-> data] >>

append_event_uncounted(kind) == << [op |-> "append", kind |-> kind] >>

\* StateManager.append_event: one line appended, then metrics.increment_event,
\* which rewrites metrics.json.
append_event(kind) ==
    << [op |-> "append", kind |-> kind],
       [op |-> "truncate", file |-> "metrics"],
       [op |-> "write", file |-> "metrics"] >>

IOStep ==
    /\ pc # "stopped"
    /\ io # <<>>
    /\ LET o == Head(io) IN
       /\ io' = Tail(io)
       /\ log' = IF o.op = "append" THEN Append(log, o.kind) ELSE log
       /\ metrics_data' =
             IF o.op = "truncate" /\ o.file = "metrics"
             THEN [metrics_data EXCEPT !.events = @ + 1] ELSE metrics_data
       /\ metrics_file' =
             IF o.op = "append" \/ o.file # "metrics" THEN metrics_file
             ELSE IF o.op = "truncate" THEN Torn ELSE File(metrics_data)
       /\ checkpoints' =
             IF o.op = "append" \/ o.file \notin Stages THEN checkpoints
             ELSE IF o.op = "truncate" THEN [checkpoints EXCEPT ![o.file] = Torn]
             ELSE [checkpoints EXCEPT ![o.file] = File(o.data)]
       /\ latest_review' =
             IF o.op = "append" \/ o.file # "latest_review" THEN latest_review
             ELSE IF o.op = "truncate" THEN Torn ELSE File(o.data)
       /\ planSaved' =
             IF o.op = "append" \/ o.file # "session" \/ role # "planner" THEN planSaved
             ELSE o.op = "write"
    /\ UNCHANGED <<pc, mode, session, observations, offset, role, response>>
    /\ UNCHANGED <<starts, outcome, calls, resumeFrom, roundTrips,
                   crashedAfterPlan, lostAt, done, doneResumes>>
    /\ UNCHANGED nonOrchVars

(***************************************************************************)
(* The dashboard (observability/dashboard.py), another process that reads  *)
(* metrics.json whenever it is asked.                                      *)
(***************************************************************************)
\* The default of the metrics endpoint: {}
EmptyDocument == [empty |-> TRUE]

\* _safe_read_json: the default for a missing file and for one json.loads
\* rejects, the parsed document otherwise.
_safe_read_json(file, default) ==
    IF file = Absent \/ file = Torn THEN default ELSE file.data

\* GET /metrics
metrics == _safe_read_json(metrics_file, EmptyDocument)

(***************************************************************************)
(* Process start, crash and exit.                                          *)
(***************************************************************************)
\* MetricsRecorder.__init__: an existing metrics.json is parsed.
MetricsLoadable == metrics_file # Torn
LoadedMetrics == IF metrics_file = Absent THEN [events |-> 0] ELSE metrics_file.data

Start(m, first) ==
    /\ pc = "stopped"
    /\ starts < MaxStarts
    /\ starts' = starts + 1
    /\ mode' = m
    /\ calls' = <<>>
    /\ resumeFrom' = -1
    /\ done' = IF m = "run" THEN Absent ELSE done
    /\ doneResumes' = IF m = "run" THEN 0
                      ELSE IF done # Absent THEN doneResumes + 1 ELSE doneResumes
    /\ IF MetricsLoadable
       THEN /\ pc' = first
            /\ metrics_data' = LoadedMetrics
            /\ outcome' = "running"
       ELSE /\ pc' = "stopped"
            /\ metrics_data' = [events |-> 0]
            /\ outcome' = "startup_error"
    /\ UNCHANGED <<session, observations, offset, role, response, io>>
    /\ UNCHANGED <<roundTrips, planSaved, crashedAfterPlan, lostAt>>
    /\ UNCHANGED diskVars
    /\ UNCHANGED nonOrchVars

StartRun == Start("run", "create_plan")
StartResume == Start("resume", "resume")

Stop(how) ==
    /\ pc' = "stopped"
    /\ outcome' = how
    /\ session' = NoSession
    /\ observations' = <<>>
    /\ offset' = 0
    /\ role' = "none"
    /\ response' = NoResponse
    /\ metrics_data' = [events |-> 0]
    /\ io' = <<>>

\* The process is killed: memory is lost, the disk stays as it is.
Crash ==
    /\ pc # "stopped"
    /\ Stop("crashed")
    /\ crashedAfterPlan' = planSaved
    /\ lostAt' = roundTrips
    /\ UNCHANGED <<mode, starts, calls, resumeFrom, roundTrips, planSaved, done, doneResumes>>
    /\ UNCHANGED diskVars
    /\ UNCHANGED nonOrchVars

(***************************************************************************)
(* BaseSDKAgent.ask                                                        *)
(***************************************************************************)
AskPrompt ==
    /\ pc = "ask" /\ io = <<>>
    /\ io' = append_event("agent_prompt")
    /\ pc' = "gateway"
    /\ UNCHANGED <<mode, session, observations, offset, role, response, metrics_data>>
    /\ UNCHANGED diskVars /\ UNCHANGED histVars
    /\ UNCHANGED nonOrchVars

Replies ==
    CASE role = "planner"  -> { [to |-> 0, text |-> r] : r \in RawResponses }
      [] role = "executor" -> { [to |-> offset, text |-> t] : t \in ExecTexts }
      [] OTHER             -> { [to |-> 0, text |-> t] : t \in ReviewTexts }

\* gateway.run returns the reply.
AskGateway ==
    /\ pc = "gateway" /\ io = <<>>
    /\ \E r \in Replies : response' = r
    /\ calls' = Append(calls, [role |-> role, step |-> offset - 1])
    /\ roundTrips' = IF role = "executor" /\ offset > roundTrips THEN offset ELSE roundTrips
    /\ io' = append_event("agent_response")
    /\ pc' = "asked"
    /\ UNCHANGED <<mode, session, observations, offset, role, metrics_data>>
    /\ UNCHANGED <<starts, outcome, resumeFrom, planSaved, crashedAfterPlan, lostAt, done, doneResumes>>
    /\ UNCHANGED diskVars
    /\ UNCHANGED nonOrchVars

\* gateway.run raises: the backend's retries are exhausted, or a budget is exceeded.
AskGatewayFails ==
    /\ pc = "gateway" /\ io = <<>>
    /\ Stop("error")
    /\ calls' = Append(calls, [role |-> role, step |-> offset - 1])
    /\ crashedAfterPlan' = FALSE
    /\ UNCHANGED <<mode, starts, resumeFrom, roundTrips, planSaved, lostAt, done, doneResumes>>
    /\ UNCHANGED diskVars
    /\ UNCHANGED nonOrchVars

(***************************************************************************)
(* PlannerAgent.create_plan                                                *)
(***************************************************************************)
create_plan ==
    /\ pc = "create_plan"
    /\ role' = "planner"
    /\ pc' = "ask"
    /\ UNCHANGED <<mode, session, observations, offset, response, metrics_data, io>>
    /\ UNCHANGED diskVars /\ UNCHANGED histVars
    /\ UNCHANGED nonOrchVars

PlanGoal == IF mode = "run" THEN Goal
            ELSE IF session.goal # "" THEN session.goal ELSE "Review goal"

PlannerFinish ==
    /\ pc = "asked" /\ role = "planner" /\ io = <<>>
    /\ LET steps == _extract_steps(response.text)
           s == AgentSession(PlanGoal, steps)
       IN /\ session' = s
          /\ io' = append_event("plan_created")
                   \o save_checkpoint("plan", [goal |-> PlanGoal, steps |-> steps])
                   \o save_checkpoint("session", to_dict(s))
    /\ roundTrips' = 0
    /\ pc' = IF mode = "run" THEN "execute" ELSE "resume_execute"
    /\ UNCHANGED <<mode, observations, offset, role, response, metrics_data>>
    /\ UNCHANGED <<starts, outcome, calls, resumeFrom, planSaved, crashedAfterPlan, lostAt, done, doneResumes>>
    /\ UNCHANGED diskVars
    /\ UNCHANGED nonOrchVars

(***************************************************************************)
(* ExecutorAgent.execute                                                   *)
(***************************************************************************)
start_index_zero(s) == 0

\* loop.py: start_index=session.current_step
start_index(s) == s.current_step

InitialObservations_fresh(s) == <<>>

\* observations = session.observations[:]
InitialObservations(s) == s.observations

execute ==
    /\ pc = "execute" /\ io = <<>>
    /\ observations' = InitialObservations(session)
    /\ offset' = start_index(session)
    /\ pc' = "exec_loop"
    /\ UNCHANGED <<mode, session, role, response, metrics_data, io>>
    /\ UNCHANGED diskVars /\ UNCHANGED histVars
    /\ UNCHANGED nonOrchVars

ExecNext_advancing ==
    /\ pc = "exec_loop" /\ io = <<>>
    /\ offset < Len(session.plan_steps)
    /\ offset' = offset + 1
    /\ role' = "executor"
    /\ session' = [session EXCEPT !.current_step = offset']
    /\ io' = save_checkpoint("session", to_dict(session'))
    /\ pc' = "ask"
    /\ UNCHANGED <<mode, observations, response, metrics_data>>
    /\ UNCHANGED diskVars /\ UNCHANGED histVars
    /\ UNCHANGED nonOrchVars

\* for offset, step in enumerate(plan_steps[start_index:], start=start_index + 1)
ExecNext ==
    /\ pc = "exec_loop" /\ io = <<>>
    /\ offset < Len(session.plan_steps)
    /\ offset' = offset + 1
    /\ role' = "executor"
    /\ pc' = "ask"
    /\ UNCHANGED <<mode, session, observations, response, metrics_data, io>>
    /\ UNCHANGED diskVars /\ UNCHANGED histVars
    /\ UNCHANGED nonOrchVars

NextObservations_overwrite(obs, r) == <<r>>

\* observations.append(response); session.observations = observations
NextObservations(obs, r) == Append(obs, r)

ExecRecord ==
    /\ pc = "asked" /\ role = "executor" /\ io = <<>>
    /\ observations' = NextObservations(observations, response)
    /\ session' = [session EXCEPT !.observations = observations']
    /\ pc' = "exec_advance"
    /\ UNCHANGED <<mode, offset, role, response, metrics_data, io>>
    /\ UNCHANGED diskVars /\ UNCHANGED histVars
    /\ UNCHANGED nonOrchVars

\* session.current_step = offset; save_checkpoint("session", ...)
ExecAdvance ==
    /\ pc = "exec_advance"
    /\ session' = [session EXCEPT !.current_step = offset]
    /\ io' = save_checkpoint("session", to_dict(session'))
    /\ pc' = "exec_loop"
    /\ UNCHANGED <<mode, observations, offset, role, response, metrics_data>>
    /\ UNCHANGED diskVars /\ UNCHANGED histVars
    /\ UNCHANGED nonOrchVars

ExecComplete ==
    /\ pc = "exec_loop" /\ io = <<>>
    /\ offset >= Len(session.plan_steps)
    /\ io' = append_event("execution_complete")
             \o save_checkpoint("execution", to_dict(session))
    /\ pc' = IF mode = "run" THEN "review" ELSE "resume_review"
    /\ UNCHANGED <<mode, session, observations, offset, role, response, metrics_data>>
    /\ UNCHANGED diskVars /\ UNCHANGED histVars
    /\ UNCHANGED nonOrchVars

(***************************************************************************)
(* ReviewerAgent.review and the orchestrator's write of latest_review      *)
(***************************************************************************)
review ==
    /\ pc = "review" /\ io = <<>>
    /\ role' = "reviewer"
    /\ pc' = "ask"
    /\ UNCHANGED <<mode, session, observations, offset, response, metrics_data, io>>
    /\ UNCHANGED diskVars /\ UNCHANGED histVars
    /\ UNCHANGED nonOrchVars

Verdict(text) == IF text = "PASS" THEN "PASS" ELSE "REVIEW"

ReviewFinish ==
    /\ pc = "asked" /\ role = "reviewer" /\ io = <<>>
    /\ session' = [session EXCEPT !.summary = response.text]
    /\ LET payload == [goal |-> session.goal, verdict |-> Verdict(response.text),
                       summary |-> response.text]
       IN io' = append_event("review_summary")
                \o save_checkpoint("review", payload)
                \o save_checkpoint("session", to_dict(session'))
                \o write_audit(payload)
    /\ pc' = "return"
    /\ UNCHANGED <<mode, observations, offset, role, response, metrics_data>>
    /\ UNCHANGED diskVars /\ UNCHANGED histVars
    /\ UNCHANGED nonOrchVars

(***************************************************************************)
(* AgentOrchestrator.resume                                                *)
(***************************************************************************)
NeedsPlan_always(s) == TRUE

\* if not session.plan_steps
NeedsPlan(s) == s.plan_steps = <<>>
NeedsExecute_never(s) == FALSE

\* if session.current_step < len(session.plan_steps)
NeedsExecute(s) == s.current_step < Len(s.plan_steps)
\* if session.summary is None
NeedsReview(s) == s.summary = NoSummary

resume ==
    /\ pc = "resume"
    /\ checkpoints["session"].kind = "data"
    /\ LET s == from_dict(checkpoints["session"].data) IN
       /\ session' = s
       /\ resumeFrom' = s.current_step
       /\ pc' = IF NeedsPlan(s) THEN "create_plan" ELSE "resume_execute"
    /\ UNCHANGED <<mode, observations, offset, role, response, metrics_data, io>>
    /\ UNCHANGED <<starts, outcome, calls, roundTrips, planSaved, crashedAfterPlan, lostAt, done, doneResumes>>
    /\ UNCHANGED diskVars
    /\ UNCHANGED nonOrchVars

ResumeFails_logging ==
    /\ pc = "resume"
    /\ checkpoints["session"].kind # "data"
    /\ Stop(IF checkpoints["session"] = Absent THEN "no_checkpoint" ELSE "load_error")
    /\ log' = Append(log, "resume_failed")
    /\ UNCHANGED <<mode, starts, calls, resumeFrom, roundTrips, planSaved,
                   crashedAfterPlan, lostAt, done, doneResumes>>
    /\ UNCHANGED <<checkpoints, latest_review, metrics_file>>
    /\ UNCHANGED nonOrchVars

\* No checkpoint: RuntimeError.  A truncated file: json.loads raises.
ResumeFails ==
    /\ pc = "resume"
    /\ checkpoints["session"].kind # "data"
    /\ Stop(IF checkpoints["session"] = Absent THEN "no_checkpoint" ELSE "load_error")
    /\ UNCHANGED <<mode, starts, calls, resumeFrom, roundTrips, planSaved,
                   crashedAfterPlan, lostAt, done, doneResumes>>
    /\ UNCHANGED diskVars
    /\ UNCHANGED nonOrchVars

ResumeExecute ==
    /\ pc = "resume_execute" /\ io = <<>>
    /\ pc' = IF NeedsExecute(session) THEN "execute" ELSE "resume_review"
    /\ UNCHANGED <<mode, session, observations, offset, role, response, metrics_data, io>>
    /\ UNCHANGED diskVars /\ UNCHANGED histVars
    /\ UNCHANGED nonOrchVars

ResumeReview ==
    /\ pc = "resume_review" /\ io = <<>>
    /\ pc' = IF NeedsReview(session) THEN "review" ELSE "return"
    /\ UNCHANGED <<mode, session, observations, offset, role, response, metrics_data, io>>
    /\ UNCHANGED diskVars /\ UNCHANGED histVars
    /\ UNCHANGED nonOrchVars

\* run()/resume() returns: the run is Done.
Return ==
    /\ pc = "return" /\ io = <<>>
    /\ Stop("ok")
    /\ done' = checkpoints["session"]
    /\ crashedAfterPlan' = FALSE
    /\ UNCHANGED <<mode, starts, calls, resumeFrom, roundTrips, planSaved, lostAt, doneResumes>>
    /\ UNCHANGED diskVars
    /\ UNCHANGED nonOrchVars

(***************************************************************************)
(* Policy documents.  _load_yaml gives {} for a missing file and raises    *)
(* for a malformed one.  A zero budget stands for an absent (or zero) key: *)
(* both are falsy where the code tests them.                               *)
(***************************************************************************)
Threads == {"main", "worker"}
Tools == {"read", "shell"}
TokenCounts == {1, 2}

Malformed == [malformed |-> TRUE]

\* tools.yaml
ToolsDoc(bCalls, dCalls, bTokens, dTokens, hasCmds, cmds, tools) ==
    [budgets |-> [max_tool_calls |-> bCalls, max_tokens |-> bTokens],
     defaults |-> [max_tool_calls |-> dCalls, max_tokens |-> dTokens,
                   has_allowed_commands |-> hasCmds, allowed_commands |-> cmds],
     allowed_tools |-> tools]
NoToolsDoc == ToolsDoc(0, 0, 0, 0, FALSE, <<>>, {})
ToolsDocs ==
    { NoToolsDoc,
      ToolsDoc(2, 1, 0, 3, TRUE, << <<"git", "status">>, <<"ls">> >>, {"read"}),
      ToolsDoc(0, 1, 2, 0, FALSE, <<>>, {}) }

\* The tools.yaml documents that differ in their allowed commands.
CommandDocs == { d \in ToolsDocs : d.budgets.max_tokens = 0 }

\* network.yaml
NoNetworkDoc == [has_allow_net |-> FALSE, allow_net |-> FALSE]
NetworkDocs == { NoNetworkDoc, [has_allow_net |-> TRUE, allow_net |-> FALSE] }

\* paths.yaml
NoPathsDoc == [allowed_globs |-> {}, blocked_globs |-> {}]
PathsDocs == { NoPathsDoc, [allowed_globs |-> {"*.md"}, blocked_globs |-> {"docs/**"}] }

(***************************************************************************)
(* Bounds of the policy model.                                             *)
(***************************************************************************)
\* Calls started by the threads in one behaviour.
MaxOps == 3
\* Guardrail checks started by the threads in one behaviour.
MaxChecks == 2
\* Reload signals delivered in one behaviour.
MaxReloads == 1

(***************************************************************************)
(* PolicyManager                                                           *)
(***************************************************************************)
\* budgets.get(key) or defaults.get(key)
_budget(doc, key) ==
    IF doc.budgets[key] # 0 THEN doc.budgets[key] ELSE doc.defaults[key]

OverBudget_inclusive(count, limit) == limit # 0 /\ count >= limit

\* if limit and self._tool_calls > limit
OverBudget(count, limit) == limit # 0 /\ count > limit

\* allowed_tools and tool_name not in allowed_tools
NotPermitted(doc, tool) == doc.allowed_tools # {} /\ tool \notin doc.allowed_tools

CanAcquire_unlocked == TRUE

\* with self._lock: threading.Lock is not reentrant; whoever asks waits until
\* it is free.
CanAcquire == _lock = "none"

DefaultCommands ==
    << <<"ls">>, <<"cat">>, <<"python">>, <<"pytest">>, <<"rg">>, <<"git">>,
       <<"git", "status">> >>

\* PolicyManager.allowed_commands, AGENT_ALLOWED_COMMANDS not set
allowed_commands(doc) ==
    IF doc.defaults.has_allowed_commands THEN doc.defaults.allowed_commands
    ELSE DefaultCommands

allow_network(doc) == IF doc.has_allow_net THEN doc.allow_net ELSE TRUE

(***************************************************************************)
(* Threads.  A signal handler runs on the main thread, between two of its  *)
(* instructions: while it runs, the main thread's own call does not move.  *)
(***************************************************************************)
Idle == [pc |-> "idle", op |-> "none", arg |-> 0, tmp |-> 0, ord |-> 0]
NoResult == [op |-> "none", ok |-> TRUE, why |-> "", ord |-> 0, epoch |-> 0]

CanRun(t) == t = "main" => handler = "idle"

\* Reloads that have run to their end.
Epoch == reloads - failedReloads - (IF handler = "idle" THEN 0 ELSE 1)

Finish(t, r) ==
    /\ frame' = [frame EXCEPT ![t] = Idle]
    /\ result' = [result EXCEPT ![t] = r]

\* ---- authorize_tool / record_tokens -------------------------------------
Call(t, op, arg) ==
    /\ CanRun(t)
    /\ frame[t].pc = "idle"
    /\ ops < MaxOps
    /\ ops' = ops + 1
    /\ frame' = [frame EXCEPT ![t] = [Idle EXCEPT !.pc = "acquire", !.op = op, !.arg = arg]]
    /\ UNCHANGED <<_lock, _tool_calls, _token_usage, tools_policy, network_policy,
                   paths_policy, result, handler, reloads, failedReloads, installed, policy_dir,
                   entered, added, addedTokens, passed>>
    /\ UNCHANGED nonPolicyVars

authorize_tool(t) == \E tool \in Tools : Call(t, "authorize_tool", tool)
record_tokens(t) == \E n \in TokenCounts : Call(t, "record_tokens", n)

Acquire(t) ==
    /\ CanRun(t)
    /\ frame[t].pc = "acquire"
    /\ CanAcquire
    /\ _lock' = t
    /\ entered' = IF frame[t].op = "authorize_tool" THEN entered + 1 ELSE entered
    /\ frame' = [frame EXCEPT ![t].pc = "read", ![t].ord = entered']
    /\ UNCHANGED <<_tool_calls, _token_usage, tools_policy, network_policy,
                   paths_policy, result, handler, ops, reloads, failedReloads,
                   installed, policy_dir, added, addedTokens, passed>>
    /\ UNCHANGED nonPolicyVars

\* self._tool_calls += 1 / self._token_usage += tokens: the read ...
ReadCounter(t) ==
    /\ CanRun(t)
    /\ frame[t].pc = "read"
    /\ frame' = [frame EXCEPT ![t].pc = "write",
                              ![t].tmp = IF frame[t].op = "authorize_tool"
                                         THEN _tool_calls ELSE _token_usage]
    /\ UNCHANGED <<_lock, _tool_calls, _token_usage, tools_policy, network_policy,
                   paths_policy, result, handler, ops, reloads, failedReloads,
                   installed, policy_dir, entered, added, addedTokens, passed>>
    /\ UNCHANGED nonPolicyVars

\* ... and the write.
WriteCounter(t) ==
    /\ CanRun(t)
    /\ frame[t].pc = "write"
    /\ IF frame[t].op = "authorize_tool"
       THEN /\ _tool_calls' = frame[t].tmp + 1
            /\ added' = added + 1
            /\ UNCHANGED <<_token_usage, addedTokens>>
       ELSE /\ _token_usage' = frame[t].tmp + frame[t].arg
            /\ addedTokens' = addedTokens + frame[t].arg
            /\ UNCHANGED <<_tool_calls, added>>
    /\ frame' = [frame EXCEPT ![t].pc = "check"]
    /\ UNCHANGED <<_lock, tools_policy, network_policy, paths_policy, result,
                   handler, ops, reloads, failedReloads, installed, policy_dir, entered, passed>>
    /\ UNCHANGED nonPolicyVars

CheckBudget_refunding(t) ==
    /\ CanRun(t)
    /\ frame[t].pc = "check"
    /\ LET isTool == frame[t].op = "authorize_tool"
           over == IF isTool
                   THEN OverBudget(_tool_calls, _budget(tools_policy, "max_tool_calls"))
                   ELSE OverBudget(_token_usage, _budget(tools_policy, "max_tokens"))
           denied == isTool /\ NotPermitted(tools_policy, frame[t].arg)
       IN /\ Finish(t, [op |-> frame[t].op, ok |-> ~over /\ ~denied,
                        why |-> IF over THEN "budget"
                                ELSE IF denied THEN "not_permitted" ELSE "",
                        ord |-> frame[t].ord, epoch |-> Epoch,
                        permitted |-> ~denied,
                        limit |-> _budget(tools_policy, IF isTool THEN "max_tool_calls"
                                                        ELSE "max_tokens")])
          /\ passed' = IF isTool /\ ~over /\ ~denied THEN passed + 1 ELSE passed
    /\ _lock' = "none"
    /\ _tool_calls' = IF frame[t].op = "authorize_tool" /\ ~result'[t].ok
                      THEN _tool_calls - 1 ELSE _tool_calls
    /\ UNCHANGED <<_token_usage, tools_policy, network_policy,
                   paths_policy, handler, ops, reloads, failedReloads, installed, policy_dir,
                   entered, added, addedTokens>>
    /\ UNCHANGED nonPolicyVars

\* The budget test, the allowlist test, and the end of the with block.
CheckBudget(t) ==
    /\ CanRun(t)
    /\ frame[t].pc = "check"
    /\ LET isTool == frame[t].op = "authorize_tool"
           over == IF isTool
                   THEN OverBudget(_tool_calls, _budget(tools_policy, "max_tool_calls"))
                   ELSE OverBudget(_token_usage, _budget(tools_policy, "max_tokens"))
           denied == isTool /\ NotPermitted(tools_policy, frame[t].arg)
       IN /\ Finish(t, [op |-> frame[t].op, ok |-> ~over /\ ~denied,
                        why |-> IF over THEN "budget"
                                ELSE IF denied THEN "not_permitted" ELSE "",
                        ord |-> frame[t].ord, epoch |-> Epoch,
                        permitted |-> ~denied,
                        limit |-> _budget(tools_policy, IF isTool THEN "max_tool_calls"
                                                        ELSE "max_tokens")])
          /\ passed' = IF isTool /\ ~over /\ ~denied THEN passed + 1 ELSE passed
    /\ _lock' = "none"
    /\ UNCHANGED <<_tool_calls, _token_usage, tools_policy, network_policy,
                   paths_policy, handler, ops, reloads, failedReloads, installed, policy_dir,
                   entered, added, addedTokens>>
    /\ UNCHANGED nonPolicyVars

\* ---- AgentRuntime._handle_reload -> PolicyManager.reload -----------------
Signal ==
    /\ handler = "idle"
    /\ reloads < MaxReloads
    /\ reloads' = reloads + 1
    /\ handler' = "acquire"
    /\ UNCHANGED <<_lock, _tool_calls, _token_usage, tools_policy, network_policy,
                   paths_policy, frame, result, ops, failedReloads, installed, policy_dir,
                   entered, added, addedTokens, passed>>
    /\ UNCHANGED nonPolicyVars

ReloadAcquire ==
    /\ handler = "acquire"
    /\ CanAcquire
    /\ _lock' = "handler"
    /\ handler' = "tools"
    /\ UNCHANGED <<_tool_calls, _token_usage, tools_policy, network_policy,
                   paths_policy, frame, result, ops, reloads, failedReloads,
                   installed, policy_dir, entered, added, addedTokens, passed>>
    /\ UNCHANGED nonPolicyVars

\* One of the three assignments of reload(); a malformed document raises and
\* the with block releases the lock.
Load(at, next) ==
    /\ handler = at
    /\ \E d \in policy_dir[at] \cup {Malformed} :
          IF d = Malformed
          THEN /\ handler' = "idle"
               /\ _lock' = "none"
               /\ failedReloads' = failedReloads + 1
               /\ UNCHANGED <<tools_policy, network_policy, paths_policy, passed>>
          ELSE /\ handler' = next
               /\ tools_policy' = IF at = "tools" THEN d ELSE tools_policy
               /\ network_policy' = IF at = "network" THEN d ELSE network_policy
               /\ paths_policy' = IF at = "paths" THEN d ELSE paths_policy
               /\ passed' = IF at = "tools" THEN 0 ELSE passed
               /\ UNCHANGED <<_lock, failedReloads>>
    /\ UNCHANGED <<_tool_calls, _token_usage, frame, result, ops, reloads,
                   installed, policy_dir, entered, added, addedTokens>>
    /\ UNCHANGED nonPolicyVars

LoadTools == Load("tools", "network")
LoadNetwork == Load("network", "paths")
LoadPaths == Load("paths", "reset")

ResetCounters_calls_only == _tool_calls' = 0 /\ _token_usage' = _token_usage

\* self._tool_calls = 0; self._token_usage = 0
ResetCounters == _tool_calls' = 0 /\ _token_usage' = 0

ReloadFinish ==
    /\ handler = "reset"
    /\ ResetCounters
    /\ _lock' = "none"
    /\ handler' = "idle"
    /\ installed' = installed \cup {[tools |-> tools_policy,
                                      network |-> network_policy,
                                      paths |-> paths_policy]}
    /\ entered' = 0 /\ added' = 0 /\ addedTokens' = 0 /\ passed' = 0
    /\ UNCHANGED <<tools_policy, network_policy, paths_policy, frame, result,
                   ops, reloads, failedReloads, policy_dir>>
    /\ UNCHANGED nonPolicyVars

(***************************************************************************)
(* Guardrails                                                              *)
(***************************************************************************)
Commands == { <<>>, <<"ls">>, <<"git", "commit">>, <<"curl", "http://example.com">> }
\* token.startswith("http")
LooksLikeUrl(token) == token \in {"http://example.com"}

IsPrefix(p, s) == Len(p) <= Len(s) /\ \A i \in 1..Len(p) : p[i] = s[i]

\* Guardrails._command_allowed: a whole-entry prefix match, else the first
\* token of the command against the first token of every entry.
_command_allowed(cmd, entries) ==
    \/ \E i \in 1..Len(entries) : entries[i] # <<>> /\ IsPrefix(entries[i], cmd)
    \/ \E i \in 1..Len(entries) : entries[i] # <<>> /\ cmd[1] = entries[i][1]

\* Candidate paths, relative to the workspace; the last one leaves it.
Candidates == {"notes.txt", "docs/a.md", "../outside"}
Escapes(path) == path = "../outside"

\* fnmatch.fnmatch(rel_str, pattern): "*" also matches "/".
fnmatch(path, pattern) ==
    <<path, pattern>> \in { <<"notes.txt", "notes.txt">>,
                            <<"docs/a.md", "**/*.md">>,
                            <<"docs/a.md", "*.md">>,
                            <<"docs/a.md", "docs/**">> }

\* config.settings.tools: the globs of the tool profiles
SettingsAllowed == {"**/*.md", "notes.txt"}
SettingsDenied == {"secret/**"}

_combined_blocked_globs_settings(doc) == SettingsDenied

\* policies.blocked_globs() + the denied_globs of the tool profiles
_combined_blocked_globs(doc) == doc.blocked_globs \cup SettingsDenied
_combined_allowed_globs(doc) == doc.allowed_globs \cup SettingsAllowed

Guard(t, op, arg, first) ==
    /\ CanRun(t)
    /\ frame[t].pc = "idle"
    /\ ops < MaxChecks
    /\ ops' = ops + 1
    /\ frame' = [frame EXCEPT ![t] = [Idle EXCEPT !.pc = first, !.op = op, !.arg = arg]]
    /\ UNCHANGED <<_lock, _tool_calls, _token_usage, tools_policy, network_policy,
                   paths_policy, result, handler, reloads, failedReloads, installed, policy_dir,
                   entered, added, addedTokens, passed>>
    /\ UNCHANGED nonPolicyVars

check_command(t) == \E cmd \in Commands : Guard(t, "check_command", cmd, "cc_commands")
ensure_workspace_path(t) ==
    \E path \in Candidates : Guard(t, "ensure_workspace_path", path, "ep_blocked")

guardFrame == <<_lock, _tool_calls, _token_usage, tools_policy, network_policy,
                paths_policy, handler, ops, reloads, failedReloads, installed, policy_dir,
                entered, added, addedTokens, passed>>

\* if not cmd_list; if not self._command_allowed(cmd_list)
CommandAllowed(t) ==
    /\ CanRun(t)
    /\ frame[t].pc = "cc_commands"
    /\ LET cmd == frame[t].arg
           r == [op |-> "check_command", epoch |-> Epoch, arg |-> cmd,
                 read1 |-> tools_policy, read2 |-> network_policy, reads |-> 1]
       IN IF cmd = <<>>
          THEN Finish(t, [r EXCEPT !.reads = 0] @@ [ok |-> FALSE, why |-> "empty"])
          ELSE IF ~_command_allowed(cmd, allowed_commands(tools_policy))
          THEN Finish(t, r @@ [ok |-> FALSE, why |-> "not_allowed"])
          ELSE /\ frame' = [frame EXCEPT ![t].pc = "cc_network", ![t].tmp = tools_policy]
               /\ UNCHANGED result
    /\ UNCHANGED guardFrame
    /\ UNCHANGED nonPolicyVars

\* if not self.policies.allow_network() and any(token.startswith("http") ...)
NetworkAllowed(t) ==
    /\ CanRun(t)
    /\ frame[t].pc = "cc_network"
    /\ LET cmd == frame[t].arg
           blocked == /\ ~allow_network(network_policy)
                      /\ \E i \in 1..Len(cmd) : LooksLikeUrl(cmd[i])
       IN Finish(t, [op |-> "check_command", epoch |-> Epoch, arg |-> cmd,
                     read1 |-> frame[t].tmp, read2 |-> network_policy, reads |-> 2,
                     ok |-> ~blocked, why |-> IF blocked THEN "network" ELSE ""])
    /\ UNCHANGED guardFrame
    /\ UNCHANGED nonPolicyVars

\* The escape test, then blocked = self._combined_blocked_globs()
BlockedGlobs(t) ==
    /\ CanRun(t)
    /\ frame[t].pc = "ep_blocked"
    /\ IF Escapes(frame[t].arg)
       THEN Finish(t, [op |-> "ensure_workspace_path", epoch |-> Epoch,
                       arg |-> frame[t].arg, read1 |-> paths_policy,
                       read2 |-> paths_policy, reads |-> 0,
                       ok |-> FALSE, why |-> "escape"])
       ELSE /\ frame' = [frame EXCEPT ![t].pc = "ep_allowed", ![t].tmp = paths_policy]
            /\ UNCHANGED result
    /\ UNCHANGED guardFrame
    /\ UNCHANGED nonPolicyVars

\* allowed = self._combined_allowed_globs(), then the two tests
AllowedGlobs(t) ==
    /\ CanRun(t)
    /\ frame[t].pc = "ep_allowed"
    /\ LET rel == frame[t].arg
           blocked == _combined_blocked_globs(frame[t].tmp)
           allowed == _combined_allowed_globs(paths_policy)
           isBlocked == \E p \in blocked : fnmatch(rel, p)
           notAllowed == allowed # {} /\ ~\E p \in allowed : fnmatch(rel, p)
       IN Finish(t, [op |-> "ensure_workspace_path", epoch |-> Epoch, arg |-> rel,
                     read1 |-> frame[t].tmp, read2 |-> paths_policy, reads |-> 2,
                     ok |-> ~isBlocked /\ ~notAllowed,
                     why |-> IF isBlocked THEN "blocked"
                             ELSE IF notAllowed THEN "not_allowed" ELSE ""])
    /\ UNCHANGED guardFrame
    /\ UNCHANGED nonPolicyVars

(***************************************************************************)
(* MCPClientManager: the per-endpoint rate limiter and invoke.             *)
(***************************************************************************)
Endpoints == {"local"}
\* rate_limit_per_minute of the profile; 0 stands for None (no limit).
Limits == {0, 1, 2}
\* transport of the profile, with its address: "none" is a transport invoke
\* does not know, or one whose url / command is missing.  ws behaves as stdio.
Transports == {"http", "stdio", "none"}
\* The seconds that pass between two calls.
Ticks == {59, 60, 61}
\* The last reading of the clock.
MaxClock == 125
\* invoke calls in one behaviour.
MaxInvokes == 4

\* window_start = now - 60
Window == 60

MCPServerProfile(transport, limit) ==
    [transport |-> transport, rate_limit_per_minute |-> limit]
EndpointState ==
    [last_health |-> "unknown", last_latency_ms |-> "None", last_error |-> "None",
     throttled |-> FALSE, total_invocations |-> 0]
RateLimiter(limit) == [limit |-> limit, events |-> <<>>]

Expired_inclusive(event, t) == event <= t - Window

\* self.events[0] < window_start
Expired(event, t) == event < t - Window

\* while self.events and self.events[0] < window_start: self.events.popleft()
RECURSIVE Trim(_, _)
Trim(events, t) ==
    IF events # <<>> /\ Expired(Head(events), t) THEN Trim(Tail(events), t) ELSE events

Full_exclusive(events, limit) == Len(events) > limit

\* if len(self.events) >= self.limit
Full(events, limit) == Len(events) >= limit

allow_recording(limiter, t) ==
    IF limiter.limit = 0 THEN [limiter |-> limiter, allowed |-> TRUE]
    ELSE LET kept == Trim(limiter.events, t) IN
         [limiter |-> [limiter EXCEPT !.events = Append(kept, t)],
          allowed |-> ~Full(kept, limiter.limit)]

\* RateLimiter.allow: the limiter after the call, and what it returned.
allow(limiter, t) ==
    IF limiter.limit = 0 THEN [limiter |-> limiter, allowed |-> TRUE]
    ELSE LET kept == Trim(limiter.events, t) IN
         IF Full(kept, limiter.limit)
         THEN [limiter |-> [limiter EXCEPT !.events = kept], allowed |-> FALSE]
         ELSE [limiter |-> [limiter EXCEPT !.events = Append(kept, t)], allowed |-> TRUE]

\* The three transport branches of invoke; any other profile raises
\* "Unsupported transport" inside the try block.
Supported(profile) == profile.transport \in {"http", "ws", "stdio"}
\* The http client is httpx.Client(timeout=5); subprocess.run is called
\* without a timeout, ws.recv() likewise.
HasTimeout(profile) == profile.transport = "http"
\* What the dispatch gives: a result, or an exception (refused connection,
\* HTTP error status, non-zero exit, an expired timeout); a peer that never
\* answers a call without a timeout leaves the caller "blocked" for ever.
TransportOutcomes(profile) ==
    IF ~Supported(profile) THEN {"error"}
    ELSE IF HasTimeout(profile) THEN {"ok", "error"}
    ELSE {"ok", "error", "blocked"}

\* The caller is inside a call that never returns.
Blocked == reply.how = "blocked"

\* MCPClientManager._log_event: nothing is logged without a StateManager.
_log_event(sink, trail, event) == IF sink THEN Append(trail, event) ELSE trail

Tick ==
    /\ \E d \in Ticks : now + d <= MaxClock /\ now' = now + d
    /\ UNCHANGED <<_endpoints, state, _limiters, _states, mcp_log, reply, report, mcall,
                   history, invokes, probed>>
    /\ UNCHANGED nonMcpVars

invoke ==
    /\ ~Blocked
    /\ invokes < MaxInvokes
    /\ invokes' = invokes + 1
    /\ \E endpoint \in Endpoints \cup {"missing"} :
          IF endpoint \notin Endpoints
          THEN /\ reply' = [endpoint |-> endpoint, at |-> now, how |-> "KeyError"]
               /\ history' = Append(history, [endpoint |-> endpoint, at |-> now,
                                              admitted |-> FALSE, dispatched |-> 0,
                                              how |-> "KeyError"])
               /\ UNCHANGED <<_limiters, _states, mcp_log>>
          ELSE LET a == allow(_limiters[endpoint], now) IN
               /\ _limiters' = [_limiters EXCEPT ![endpoint] = a.limiter]
               /\ IF ~a.allowed
                  THEN /\ _states' = [_states EXCEPT ![endpoint].throttled = TRUE]
                       /\ reply' = [endpoint |-> endpoint, at |-> now,
                                    how |-> "rate limit exceeded"]
                       /\ history' = Append(history,
                              [endpoint |-> endpoint, at |-> now, admitted |-> FALSE,
                               dispatched |-> 0, how |-> "rate limit exceeded"])
                       /\ UNCHANGED mcp_log
                  ELSE \E transport \in TransportOutcomes(_endpoints[endpoint]) :
                       /\ _states' = [_states EXCEPT
                                         ![endpoint].throttled = FALSE,
                                         ![endpoint].total_invocations = @ + 1]
                       /\ history' = Append(history,
                              [endpoint |-> endpoint, at |-> now, admitted |-> TRUE,
                               dispatched |-> IF Supported(_endpoints[endpoint])
                                              THEN 1 ELSE 0,
                               how |-> transport])
                       /\ mcp_log' = IF transport = "blocked" THEN mcp_log
                                      ELSE _log_event(state, mcp_log,
                                              [kind |-> "mcp_invoke",
                                               endpoint |-> endpoint,
                                               status |-> transport])
                       /\ reply' = [endpoint |-> endpoint, at |-> now, how |-> transport]
    /\ UNCHANGED <<now, _endpoints, state, report, mcall, probed>>
    /\ UNCHANGED nonMcpVars

(***************************************************************************)
(* MCPClientManager.health_report / _check_health                          *)
(***************************************************************************)
\* What a probe meets: a reply below 400, a reply of 400 or above (http
\* only), an exception (refused connection, non-zero exit of the command),
\* or no branch for the profile's transport; a command that never exits
\* leaves the probe "blocked", as subprocess.run is given no timeout.
ProbeOutcomes(profile) ==
    CASE profile.transport = "http"  -> {"ok", "http_503", "exception"}
      [] profile.transport \in {"ws", "stdio"} -> {"ok", "exception", "blocked"}
      [] OTHER                       -> {"unsupported"}

HealthAfter_unthrottling(es, met) ==
    IF met = "exception"
    THEN [es EXCEPT !.last_health = "error", !.last_error = "exc", !.throttled = FALSE]
    ELSE [es EXCEPT !.last_health = met, !.last_latency_ms = "measured",
                    !.last_error = "None", !.throttled = FALSE]

\* _check_health: status = "ok" | f"http_{status_code}" | "unsupported" with
\* the measured latency and last_error = None, or the except branch, which
\* leaves last_latency_ms as it was.
HealthAfter(es, met) ==
    IF met = "exception"
    THEN [es EXCEPT !.last_health = "error", !.last_error = "exc"]
    ELSE [es EXCEPT !.last_health = met, !.last_latency_ms = "measured",
                    !.last_error = "None"]

health_report ==
    /\ ~Blocked
    /\ \E met \in [Endpoints -> UNION { ProbeOutcomes(_endpoints[e]) : e \in Endpoints }] :
          /\ \A e \in Endpoints : met[e] \in ProbeOutcomes(_endpoints[e])
          /\ IF \E e \in Endpoints : met[e] = "blocked"
             THEN /\ reply' = [endpoint |-> CHOOSE e \in Endpoints : met[e] = "blocked",
                               at |-> now, how |-> "blocked"]
                  /\ UNCHANGED <<_states, report, probed>>
             ELSE /\ _states' = [e \in Endpoints |-> HealthAfter(_states[e], met[e])]
                  /\ report' = [e \in Endpoints |->
                                  [name |-> e, probe |-> met[e],
                                   status |-> IF met[e] = "exception" THEN "error"
                                              ELSE met[e],
                                   last_error |-> _states'[e].last_error,
                                   throttled |-> _states'[e].throttled,
                                   total_invocations |-> _states'[e].total_invocations]]
                  /\ probed' = probed \cup Endpoints
                  /\ UNCHANGED reply
    /\ UNCHANGED <<now, _endpoints, state, _limiters, mcp_log, mcall, history,
                   invokes>>
    /\ UNCHANGED nonMcpVars

(***************************************************************************)
(* invoke called from two threads at once.  RateLimiter and EndpointState  *)
(* take no lock: a thread may be preempted between any two of the steps    *)
(* below, each of which is atomic under the interpreter lock.              *)
(***************************************************************************)
mcpFrame == <<_endpoints, state, report, probed>>

\* No invoke in progress on the thread.
NoCall == [pc |-> "idle", endpoint |-> "", t |-> 0, tmp |-> 0]

Done(t, e, entry) ==
    /\ mcall' = [mcall EXCEPT ![t] = NoCall]
    /\ reply' = [endpoint |-> e, at |-> mcall[t].t, how |-> entry.how]
    /\ history' = Append(history, entry)

\* limiter.allow(): if not self.limit: return True; now = time.monotonic()
AllowEnter(t) ==
    /\ mcall[t].pc = "idle"
    /\ invokes < MaxInvokes
    /\ invokes' = invokes + 1
    /\ \E e \in Endpoints :
          mcall' = [mcall EXCEPT ![t] =
                       [pc |-> IF _limiters[e].limit = 0 THEN "admit" ELSE "trim",
                        endpoint |-> e, t |-> now, tmp |-> 0]]
    /\ UNCHANGED <<now, _limiters, _states, mcp_log, reply, history>>
    /\ UNCHANGED mcpFrame /\ UNCHANGED nonMcpVars

\* while self.events and self.events[0] < window_start
TrimTest(t) ==
    /\ mcall[t].pc = "trim"
    /\ LET events == _limiters[mcall[t].endpoint].events IN
       mcall' = [mcall EXCEPT ![t].pc =
                    IF events # <<>> /\ Expired(Head(events), mcall[t].t)
                    THEN "pop" ELSE "check"]
    /\ UNCHANGED <<now, _limiters, _states, mcp_log, reply, history, invokes>>
    /\ UNCHANGED mcpFrame /\ UNCHANGED nonMcpVars

\* self.events.popleft(): whatever is at the head by now; IndexError when empty
TrimPop(t) ==
    /\ mcall[t].pc = "pop"
    /\ LET e == mcall[t].endpoint
           events == _limiters[e].events
       IN IF events = <<>>
          THEN /\ Done(t, e, [endpoint |-> e, at |-> mcall[t].t, admitted |-> FALSE,
                              dispatched |-> 0, how |-> "IndexError"])
               /\ UNCHANGED _limiters
          ELSE /\ _limiters' = [_limiters EXCEPT ![e].events = Tail(events)]
               /\ mcall' = [mcall EXCEPT ![t].pc = "trim"]
               /\ UNCHANGED <<reply, history>>
    /\ UNCHANGED <<now, _states, mcp_log, invokes>>
    /\ UNCHANGED mcpFrame /\ UNCHANGED nonMcpVars

\* if len(self.events) >= self.limit: return False
FullTest(t) ==
    /\ mcall[t].pc = "check"
    /\ LET l == _limiters[mcall[t].endpoint] IN
       mcall' = [mcall EXCEPT ![t].pc = IF Full(l.events, l.limit) THEN "refuse"
                                        ELSE "append"]
    /\ UNCHANGED <<now, _limiters, _states, mcp_log, reply, history, invokes>>
    /\ UNCHANGED mcpFrame /\ UNCHANGED nonMcpVars

\* self.events.append(now); return True
AppendEvent(t) ==
    /\ mcall[t].pc = "append"
    /\ _limiters' = [_limiters EXCEPT ![mcall[t].endpoint].events = Append(@, mcall[t].t)]
    /\ mcall' = [mcall EXCEPT ![t].pc = "admit"]
    /\ UNCHANGED <<now, _states, mcp_log, reply, history, invokes>>
    /\ UNCHANGED mcpFrame /\ UNCHANGED nonMcpVars

\* self._states[endpoint].throttled = True; raise RuntimeError
Refuse(t) ==
    /\ mcall[t].pc = "refuse"
    /\ LET e == mcall[t].endpoint IN
       /\ _states' = [_states EXCEPT ![e].throttled = TRUE]
       /\ Done(t, e, [endpoint |-> e, at |-> mcall[t].t, admitted |-> FALSE,
                      dispatched |-> 0, how |-> "rate limit exceeded"])
    /\ UNCHANGED <<now, _limiters, mcp_log, invokes>>
    /\ UNCHANGED mcpFrame /\ UNCHANGED nonMcpVars

\* throttled = False, and the read of total_invocations += 1
Admit(t) ==
    /\ mcall[t].pc = "admit"
    /\ LET e == mcall[t].endpoint IN
       /\ _states' = [_states EXCEPT ![e].throttled = FALSE]
       /\ mcall' = [mcall EXCEPT ![t].pc = "dispatch",
                                 ![t].tmp = _states[e].total_invocations]
    /\ UNCHANGED <<now, _limiters, mcp_log, reply, history, invokes>>
    /\ UNCHANGED mcpFrame /\ UNCHANGED nonMcpVars

\* The write of total_invocations += 1, the transport call and _log_event.
Dispatch(t) ==
    /\ mcall[t].pc = "dispatch"
    /\ LET e == mcall[t].endpoint IN
       \E transport \in TransportOutcomes(_endpoints[e]) :
          /\ _states' = [_states EXCEPT ![e].total_invocations = mcall[t].tmp + 1]
          /\ mcp_log' = _log_event(state, mcp_log,
                            [kind |-> "mcp_invoke", endpoint |-> e, status |-> transport])
          /\ Done(t, e, [endpoint |-> e, at |-> mcall[t].t, admitted |-> TRUE,
                         dispatched |-> IF Supported(_endpoints[e]) THEN 1 ELSE 0,
                         how |-> transport])
    /\ UNCHANGED <<now, _limiters, invokes>>
    /\ UNCHANGED mcpFrame /\ UNCHANGED nonMcpVars

(***************************************************************************)
(* CheckpointStore (state.py): one file <stage>.json per stage under the   *)
(* run's directory, written with json.dumps and read with json.loads.      *)
(***************************************************************************)
\* save_checkpoint calls in one behaviour.
MaxSaves == 3

\* Python values, as far as the payloads of the callers need them.
PyNone == [t |-> "None"]
PyStr(s) == [t |-> "str", v |-> s]
PyInt(n) == [t |-> "int", v |-> n]
PyList(items) == [t |-> "list", v |-> items]
PyDict(members) == [t |-> "dict", v |-> members]

\* The payloads the agents and the test save: planner_agent.py:24,
\* AgentSession.to_dict, reviewer_agent.py:24, tests/test_state.py:26.
PlanPayload == PyDict([goal |-> PyStr("demo"), steps |-> PyList(<<PyStr("a"), PyStr("b")>>)])
SessionPayload(obs, summary, step) ==
    PyDict([goal |-> PyStr("demo"), plan_steps |-> PyList(<<PyStr("a"), PyStr("b")>>),
            observations |-> PyList(obs), summary |-> summary,
            current_step |-> PyInt(step)])
ReviewPayload ==
    PyDict([goal |-> PyStr("demo"), verdict |-> PyStr("PASS"), summary |-> PyStr("PASS")])
Payloads ==
    { PyDict([goal |-> PyStr("demo")]),
      PlanPayload,
      SessionPayload(<<>>, PyNone, 0),
      SessionPayload(<<PyStr("obs")>>, PyNone, 1),
      SessionPayload(<<PyStr("obs"), PyStr("obs")>>, PyStr("PASS"), 2),
      ReviewPayload }

\* json.dumps(data, indent=2): the JSON document of a value.
RECURSIVE dumps(_)
dumps(x) ==
    CASE x.t = "None" -> [j |-> "null"]
      [] x.t = "str"  -> [j |-> "string", chars |-> x.v]
      [] x.t = "int"  -> [j |-> "number", digits |-> x.v]
      [] x.t = "list" -> [j |-> "array", items |-> [i \in DOMAIN x.v |-> dumps(x.v[i])]]
      [] x.t = "dict" -> [j |-> "object", members |-> [k \in DOMAIN x.v |-> dumps(x.v[k])]]

\* json.loads: the value of a JSON document.
RECURSIVE loads(_)
loads(d) ==
    CASE d.j = "null"   -> PyNone
      [] d.j = "string" -> PyStr(d.chars)
      [] d.j = "number" -> PyInt(d.digits)
      [] d.j = "array"  -> PyList([i \in DOMAIN d.items |-> loads(d.items[i])])
      [] d.j = "object" -> PyDict([k \in DOMAIN d.members |-> loads(d.members[k])])

\* A file holding text: the JSON documents in it, one after the other.
Text(docs) == [kind |-> "text", docs |-> docs]

write_text_append(old, doc) == IF old = Absent THEN Text(<<doc>>) ELSE Text(Append(old.docs, doc))

\* Path.write_text: the file is created or truncated, then written.
write_text(old, doc) == Text(<<doc>>)

NoLoad == [stage |-> "", raised |-> FALSE, value |-> PyNone]
Never == [t |-> "never saved"]

\* CheckpointStore.save, through StateManager.save_checkpoint
save ==
    /\ saves < MaxSaves
    /\ saves' = saves + 1
    /\ \E stage \in Stages, data \in Payloads :
          /\ store_path' = [store_path EXCEPT ![stage] = write_text(@, dumps(data))]
          /\ last_saved' = [last_saved EXCEPT ![stage] = data]
          /\ saved_count' = [saved_count EXCEPT ![stage] = @ + 1]
    /\ UNCHANGED <<loaded, expected>>
    /\ UNCHANGED <<invokerVars, gatewayVars>>
    /\ UNCHANGED nonToolVars

\* CheckpointStore.load, through StateManager.load_checkpoint: None when the
\* file does not exist; json.loads raises JSONDecodeError unless the text is
\* one document.
load ==
    /\ \E stage \in Stages :
          /\ loaded' =
                IF store_path[stage] = Absent
                THEN [stage |-> stage, raised |-> FALSE, value |-> PyNone]
                ELSE IF Len(store_path[stage].docs) = 1
                THEN [stage |-> stage, raised |-> FALSE, value |-> loads(store_path[stage].docs[1])]
                ELSE [stage |-> stage, raised |-> TRUE, value |-> PyNone]
          /\ expected' = last_saved[stage]
    /\ UNCHANGED <<store_path, last_saved, saved_count, saves>>
    /\ UNCHANGED <<invokerVars, gatewayVars>>
    /\ UNCHANGED nonToolVars

StoreInit ==
    /\ store_path = [s \in Stages |-> Absent]
    /\ loaded = NoLoad
    /\ expected = Never
    /\ last_saved = [s \in Stages |-> Never]
    /\ saved_count = [s \in Stages |-> 0]
    /\ saves = 0

(***************************************************************************)
(* ToolInvoker (tools/invoker.py) with the PolicyManager's authorize_tool   *)
(* and the MetricsRecorder (state.py), called from one thread.             *)
(***************************************************************************)
\* ToolInvoker.invoke calls in one behaviour.
MaxToolCalls == 3
\* Responses whose usage is recorded in one behaviour.
MaxUsages == 2

\* The names invoke may be given: the registered tools, and one that is not.
ToolNames == Tools \cup {"unknown"}

\* What registry.create(tool_name) and tool.run(payload) end in.  An
\* unregistered name raises KeyError (registry.py:29-33).  A registered tool
\* returns a result or raises ToolError (base.py:55, 79), GuardrailViolation
\* from a check of its guardrails (guardrails.py:26-45), PolicyViolation
\* from the PolicyManager, or TypeError: LocalTool.__init__ builds
\* Guardrails(context.config) without the policies argument the dataclass
\* requires (base.py:49, guardrails.py:19-21).
ToolOutcomes(tool) ==
    IF tool \notin Tools THEN {"KeyError"}
    ELSE {"ok", "ToolError", "PolicyViolation", "GuardrailViolation", "TypeError"}

\* PolicyManager.authorize_tool after the increment: what it raises.
Authorized(count, doc, tool) ==
    IF OverBudget(count, _budget(doc, "max_tool_calls")) THEN "budget exceeded"
    ELSE IF NotPermitted(doc, tool) THEN "not permitted"
    ELSE "authorized"

\* The exceptions invoke has an except branch for.
Handled(how) == how \in {"ToolError", "PolicyViolation"}

\* The event each branch of invoke appends after the start event.
Terminal(how) ==
    CASE how = "ok"              -> "tool_invocation_complete"
      [] how = "ToolError"       -> "tool_invocation_error"
      [] how = "PolicyViolation" -> "policy_violation"
      [] OTHER                   -> "none"

\* StateManager.append_event on the invoker's log, then
\* MetricsRecorder.increment_event.
Logged(trail, kind, tool) == Append(trail, [kind |-> kind, tool |-> tool])

\* MetricsRecorder.record_tool: a tool with no entry has zero calls.
record_tool(data, name, success) ==
    [data EXCEPT !.tools[name].calls = @ + 1,
                 !.tools[name].errors = IF success THEN @ ELSE @ + 1,
                 !.errors_tool = IF success THEN @ ELSE @ + 1]

\* ToolInvoker.invoke(tool_name, payload)
ToolInvoker_call(tool_name) ==
    /\ tool_invokes' = tool_invokes + 1
    /\    LET started == Logged(tool_log, "tool_invocation_start", tool_name)
              count == _tool_calls + 1
              auth == Authorized(count, tools_policy, tool_name)
          IN
          /\ _tool_calls' = count
          /\ IF auth # "authorized"
             THEN \* line 24: PolicyViolation leaves invoke before the try
                  /\ tool_log' = started
                  /\ tool_metrics' = [tool_metrics EXCEPT !.events = @ + 1]
                  /\ tool_history' = Append(tool_history,
                                            [tool |-> tool_name, how |-> auth])
                  /\ violations' = Append(violations,
                                          [by |-> "authorize_tool", at |-> Len(tool_log')])
             ELSE \E how \in ToolOutcomes(tool_name) :
                  /\ tool_history' = Append(tool_history,
                                            [tool |-> tool_name, how |-> how])
                  /\ IF how = "ok" \/ Handled(how)
                     THEN /\ tool_log' = Logged(started, Terminal(how), tool_name)
                          /\ tool_metrics' =
                                record_tool([tool_metrics EXCEPT !.events = @ + 2],
                                            tool_name, how = "ok")
                     ELSE /\ tool_log' = started
                          /\ tool_metrics' = [tool_metrics EXCEPT !.events = @ + 1]
                  /\ violations' = IF how = "PolicyViolation"
                                   THEN Append(violations,
                                               [by |-> "tool", at |-> Len(tool_log')])
                                   ELSE violations
    /\ UNCHANGED <<usages, workspace_files, spawned, tool_runs>>
    /\ UNCHANGED <<_lock, _token_usage, tools_policy, network_policy, paths_policy,
                   frame, result, handler, ops, reloads, failedReloads, installed,
                   policy_dir, entered, added, addedTokens, passed>>
    /\ UNCHANGED storeVars
    /\ UNCHANGED <<orchVars, mcpVars>>

\* invoke, called with any name
ToolInvoker_invoke ==
    /\ tool_invokes < MaxToolCalls
    /\ \E tool_name \in ToolNames : ToolInvoker_call(tool_name)
    /\ UNCHANGED gatewayVars

\* The prompt and completion tokens a response reports; <<0, 0>> also stands
\* for a response with no usage.
Usages == { <<0, 0>>, <<1, 0>>, <<1, 1>>, <<2, 1>> }

\* MetricsRecorder.record_tokens
metrics_record_tokens(data, prompt, completion) ==
    [data EXCEPT !.tokens.prompt = @ + prompt, !.tokens.completion = @ + completion]

\* AgentsGateway._record_usage -> StateManager.record_tokens ->
\* PolicyManager.record_tokens: the metrics are updated, the usage is added
\* and a PolicyViolation is raised when it exceeds max_tokens.  No event is
\* appended on the way.
StateManager_record_tokens(u) ==
    /\ usages' = usages + 1
    /\    LET delta == u[1] + u[2] IN
          IF delta = 0
          THEN UNCHANGED <<tool_metrics, _token_usage, violations>>
          ELSE /\ tool_metrics' = metrics_record_tokens(tool_metrics, u[1], u[2])
               /\ _token_usage' = _token_usage + delta
               /\ violations' =
                     IF OverBudget(_token_usage', _budget(tools_policy, "max_tokens"))
                     THEN Append(violations,
                                 [by |-> "record_tokens", at |-> Len(tool_log)])
                     ELSE violations
    /\ UNCHANGED <<tool_log, tool_history, tool_invokes, workspace_files, spawned,
                   tool_runs>>
    /\ UNCHANGED <<_lock, _tool_calls, tools_policy, network_policy, paths_policy,
                   frame, result, handler, ops, reloads, failedReloads, installed,
                   policy_dir, entered, added, addedTokens, passed>>
    /\ UNCHANGED storeVars
    /\ UNCHANGED <<orchVars, mcpVars>>

\* _record_usage, called with the usage of any response
_record_usage ==
    /\ usages < MaxUsages
    /\ \E u \in Usages : StateManager_record_tokens(u)
    /\ UNCHANGED gatewayVars

(***************************************************************************)
(* The local tools (tools/file_tools.py, shell_tool.py, repo_summary.py,   *)
(* base.py) run through ToolInvoker.invoke, with their Guardrails.         *)
(***************************************************************************)
\* ToolInvoker.invoke calls with a concrete tool in one behaviour.
MaxRuns == 2

\* workspace.read_file, workspace.write_file, workspace.shell_exec,
\* workspace.repo_summary
LocalTools == {"read", "write", "shell", "summary"}

\* Guardrails.ensure_workspace_path, called by one thread: why it raises, or
\* "ok".
PathVerdict(path, doc) ==
    LET blocked == _combined_blocked_globs(doc)
        allowed == _combined_allowed_globs(doc)
    IN IF Escapes(path) THEN "escape"
       ELSE IF \E p \in blocked : fnmatch(path, p) THEN "blocked"
       ELSE IF allowed # {} /\ ~\E p \in allowed : fnmatch(path, p) THEN "not_allowed"
       ELSE "ok"

\* Guardrails.check_command, called by one thread: why it raises, or "ok".
CommandVerdict(cmd, toolsDoc, netDoc) ==
    IF cmd = <<>> THEN "empty"
    ELSE IF ~_command_allowed(cmd, allowed_commands(toolsDoc)) THEN "not_allowed"
    ELSE IF ~allow_network(netDoc) /\ \E i \in 1..Len(cmd) : LooksLikeUrl(cmd[i])
    THEN "network"
    ELSE "ok"

\* The steps each tool's _execute performs, in the order of its statements;
\* a check that raises ends the sequence.
ReadFileTool_execute(pathV) ==
    <<"ensure_workspace_path">> \o (IF pathV = "ok" THEN <<"read">> ELSE <<>>)

WriteFileTool_execute_unchecked(pathV) == <<"write", "ensure_workspace_path">>

WriteFileTool_execute(pathV) ==
    <<"ensure_workspace_path">> \o (IF pathV = "ok" THEN <<"write">> ELSE <<>>)

\* ShellExecTool._execute and LocalTool._run_shell
ShellExecTool_execute(pathV, cmdV) ==
    <<"ensure_workspace_path">>
    \o (IF pathV # "ok" THEN <<>>
        ELSE <<"check_command">> \o (IF cmdV = "ok" THEN <<"spawn">> ELSE <<>>))

RepoSummaryTool_execute == <<"read">>

Performs(steps, what) == \E i \in 1..Len(steps) : steps[i] = what

\* ToolInvoker.invoke for a registered tool: authorize_tool, then
\* registry.create and tool.run inside the try, then the events and the
\* metric of the branch taken.  built is FALSE when LocalTool.__init__ raises
\* TypeError (see ToolOutcomes); code is the exit code of a spawned command.
invoke_local ==
    /\ tool_invokes < MaxRuns
    /\ tool_invokes' = tool_invokes + 1
    /\ \E tool_name \in LocalTools, path \in Candidates, cmd \in Commands,
          built \in BOOLEAN, code \in {0, 1} :
          LET started == Logged(tool_log, "tool_invocation_start", tool_name)
              count == _tool_calls + 1
              auth == Authorized(count, tools_policy, tool_name)
              pathV == PathVerdict(path, paths_policy)
              cmdV == CommandVerdict(cmd, tools_policy, network_policy)
              steps == IF auth # "authorized" \/ ~built THEN <<>>
                       ELSE CASE tool_name = "read"  -> ReadFileTool_execute(pathV)
                              [] tool_name = "write" -> WriteFileTool_execute(pathV)
                              [] tool_name = "shell" -> ShellExecTool_execute(pathV, cmdV)
                              [] OTHER               -> RepoSummaryTool_execute
              how == IF auth # "authorized" THEN auth
                     ELSE IF ~built THEN "TypeError"
                     ELSE IF tool_name \in {"read", "write", "shell"} /\ pathV # "ok"
                     THEN "GuardrailViolation"
                     ELSE IF tool_name = "shell" /\ cmdV # "ok" THEN "GuardrailViolation"
                     ELSE IF tool_name = "shell" /\ code # 0 THEN "ToolError"
                     ELSE "ok"
          IN
          \* inputs a tool does not read are fixed, not enumerated
          /\ tool_name # "shell" => cmd = <<>> /\ code = 0
          /\ tool_name = "summary" => path = "notes.txt"
          /\ _tool_calls' = count
          /\ workspace_files' = IF Performs(steps, "write")
                                THEN workspace_files \cup {path} ELSE workspace_files
          /\ spawned' = IF Performs(steps, "spawn") THEN Append(spawned, cmd) ELSE spawned
          /\ tool_runs' = Append(tool_runs,
                [tool |-> tool_name, path |-> path, cmd |-> cmd, auth |-> auth,
                 built |-> built, pathV |-> pathV, cmdV |-> cmdV, steps |-> steps,
                 how |-> how])
          /\ tool_history' = Append(tool_history, [tool |-> tool_name, how |-> how])
          /\ violations' = IF auth # "authorized"
                           THEN Append(violations,
                                       [by |-> "authorize_tool", at |-> Len(started)])
                           ELSE violations
          /\ IF auth = "authorized" /\ (how = "ok" \/ Handled(how))
             THEN /\ tool_log' = Logged(started, Terminal(how), tool_name)
                  /\ tool_metrics' = record_tool([tool_metrics EXCEPT !.events = @ + 2],
                                                 tool_name, how = "ok")
             ELSE /\ tool_log' = started
                  /\ tool_metrics' = [tool_metrics EXCEPT !.events = @ + 1]
    /\ usages' = usages
    /\ UNCHANGED <<_lock, _token_usage, tools_policy, network_policy, paths_policy,
                   frame, result, handler, ops, reloads, failedReloads, installed,
                   policy_dir, entered, added, addedTokens, passed>>
    /\ UNCHANGED <<storeVars, gatewayVars>>
    /\ UNCHANGED <<orchVars, mcpVars>>

(***************************************************************************)
(* AgentsGateway.run (sdk.py): the request to the model backend with its   *)
(* retries, the tool calls of the Responses flow, the usage at the end.    *)
(***************************************************************************)
\* Tool calls in one response of the backend.
MaxCalls == 1

\* The constructor's defaults (sdk.py:31-32).
max_tool_iterations == 3
max_retries == 3

\* How a call to the backend ends: with a response, or with an exception.
\* RateLimitError (HTTP 429) and InternalServerError (5xx) are the transient
\* errors, AuthenticationError (401) is not; ConnectionResetError stands for
\* an exception that is not one of the client library's.
BackendErrors == {"RateLimitError", "InternalServerError", "AuthenticationError",
                  "ConnectionResetError"}
BackendOutcomes == {"ok"} \cup BackendErrors

\* openai.APIError is the base class of every exception the client raises
\* for a request, RateLimitError and AuthenticationError included.
IsAPIError(err) == err \in {"RateLimitError", "InternalServerError", "AuthenticationError"}

\* except (RateLimitError, APIError)
Retried(err) == err = "RateLimitError" \/ IsAPIError(err)

\* The exception class of the way a ToolInvoker.invoke ended: the two
\* refusals of authorize_tool are PolicyViolations.
Raised(how) == IF how \in {"budget exceeded", "not permitted"} THEN "PolicyViolation" ELSE how

Caught_policy_only(how) == Raised(how) = "PolicyViolation"

\* except (ToolError, PolicyViolation) around tool_invoker.invoke
Caught(how) == Raised(how) \in {"ToolError", "PolicyViolation"}

\* result_payload: the tool's result, or {"error": str(exc)}
Payload(how) == IF how = "ok" THEN "result" ELSE "error"

Idling == [pc |-> "idle", flow |-> "", req |-> "", attempt |-> 0, delay |-> 1,
           iterations |-> 0, pending |-> 0, error |-> "",
           received |-> 0,      \* responses the backend has given to this run
           submits |-> 0,       \* submit_tool_outputs requests started
           final_text |-> <<>>] \* the responses whose messages were extracted

\* a new _request_with_retry(func): delay = 1.0 and attempt 0
Requesting(g, req) == [g EXCEPT !.pc = "request", !.req = req, !.attempt = 0, !.delay = 1]

Raising(g, err) == [g EXCEPT !.pc = "raised", !.error = err]

\* run: the Responses flow when the client supports it and there is a tool
\* invoker, the chat flow otherwise.  _ensure_agent creates the agent with
\* one call to the backend that is not retried.
gateway_run ==
    /\ gw.pc = "idle"
    /\ \E flow \in {"responses", "chat"} :
          IF flow = "chat"
          THEN gw' = Requesting([gw EXCEPT !.flow = flow], "chat.completions.create")
          ELSE \E made \in BackendOutcomes :
                  gw' = IF made = "ok"
                        THEN Requesting([gw EXCEPT !.flow = flow], "responses.create")
                        ELSE Raising([gw EXCEPT !.flow = flow], made)
    /\ gw_attempts' = <<>>
    /\ gw_sleeps' = <<>>
    /\ UNCHANGED gw_outputs
    /\ UNCHANGED <<storeVars, invokerVars, nonToolVars>>

\* final_text.extend(self._extract_messages(response)), and the chat flow's
\* response.choices[0].message.content
Extracted(g) == [g EXCEPT !.final_text = Append(@, g.received)]

\* The while loop of _run_responses_flow on a response with n tool calls:
\* the response's messages are extracted at the top of the loop body, which
\* runs only while iterations < max_tool_iterations.
Responded(g, n) ==
    LET r == [g EXCEPT !.received = @ + 1] IN
    IF g.flow = "chat"
    THEN [Extracted(r) EXCEPT !.pc = "finish"]
    ELSE IF g.iterations >= max_tool_iterations
    THEN [r EXCEPT !.pc = "finish"]
    ELSE IF n = 0
         THEN [Extracted(r) EXCEPT !.pc = "finish", !.iterations = @ + 1]
         ELSE [Extracted(r) EXCEPT !.pc = "tools", !.iterations = @ + 1, !.pending = n]

\* MetricsRecorder.increment_error("backend")
increment_error(data) == [data EXCEPT !.errors_backend = @ + 1]

\* One pass of the for loop of _request_with_retry.
_request_with_retry ==
    /\ gw.pc = "request"
    /\ \E met \in BackendOutcomes :
          /\ gw_attempts' = Append(gw_attempts, met)
          /\ IF met = "ok"
             THEN /\ \E n \in 0..MaxCalls : gw' = Responded(gw, n)
                  /\ UNCHANGED <<gw_sleeps, tool_metrics>>
             ELSE IF Retried(met)
             THEN /\ tool_metrics' = increment_error(tool_metrics)
                  /\ IF gw.attempt = max_retries - 1
                     THEN /\ gw' = Raising(gw, met)
                          /\ UNCHANGED gw_sleeps
                     ELSE /\ gw_sleeps' = Append(gw_sleeps, gw.delay)
                          /\ gw' = [gw EXCEPT !.attempt = @ + 1, !.delay = @ * 2]
             ELSE /\ gw' = Raising(gw, met)
                  /\ UNCHANGED <<gw_sleeps, tool_metrics>>
    /\ UNCHANGED gw_outputs
    /\ UNCHANGED <<tool_log, tool_history, tool_invokes, violations, usages,
                   workspace_files, spawned, tool_runs>>
    /\ UNCHANGED <<storeVars, nonToolVars>>

\* The function names in the tool calls of a response: a registered tool's,
\* and one that is not registered.
CalledNames == {"shell", "unknown"}

\* One tool call of the response: tool_invoker.invoke, whose ToolError or
\* PolicyViolation becomes the output; after the last call the outputs are
\* submitted with a new request.
gateway_tool_call ==
    /\ gw.pc = "tools"
    /\ \E tool_name \in CalledNames : ToolInvoker_call(tool_name)
    /\ LET how == tool_history'[Len(tool_history')].how IN
       IF how = "ok" \/ Caught(how)
       THEN /\ gw_outputs' = Append(gw_outputs, [how |-> Raised(how), output |-> Payload(how)])
            /\ IF gw.pending = 1
               THEN /\ gw' = Requesting([gw EXCEPT !.pending = 0, !.submits = @ + 1],
                                        "responses.submit_tool_outputs")
                    /\ gw_attempts' = <<>>
                    /\ gw_sleeps' = <<>>
               ELSE /\ gw' = [gw EXCEPT !.pending = @ - 1]
                    /\ UNCHANGED <<gw_attempts, gw_sleeps>>
       ELSE /\ gw' = Raising(gw, Raised(how))
            /\ UNCHANGED <<gw_outputs, gw_attempts, gw_sleeps>>

\* The end of both flows: _record_usage, then the text is returned.
gateway_finish ==
    /\ gw.pc = "finish"
    /\ \E u \in Usages : StateManager_record_tokens(u)
    /\ gw' = IF Len(violations') > Len(violations)
             THEN Raising(gw, "PolicyViolation")
             ELSE [gw EXCEPT !.pc = "returned"]
    /\ UNCHANGED <<gw_attempts, gw_sleeps, gw_outputs>>

GatewayInit ==
    /\ gw = Idling
    /\ gw_attempts = <<>>
    /\ gw_sleeps = <<>>
    /\ gw_outputs = <<>>

InvokerInit ==
    /\ tool_log = <<>>
    /\ tool_metrics = [tools |-> [n \in ToolNames \cup LocalTools |->
                                     [calls |-> 0, errors |-> 0]],
                       tokens |-> [prompt |-> 0, completion |-> 0],
                       errors_tool |-> 0, errors_backend |-> 0, events |-> 0]
    /\ tool_history = <<>>
    /\ tool_invokes = 0
    /\ violations = <<>>
    /\ usages = 0
    /\ workspace_files = {}
    /\ spawned = <<>>
    /\ tool_runs = <<>>

ToolInit == StoreInit /\ InvokerInit /\ GatewayInit

(***************************************************************************)
(* The orchestrator's specification.                                       *)
(***************************************************************************)
OrchInit ==
    /\ checkpoints = [s \in Stages |-> Absent]
    /\ latest_review = Absent
    /\ metrics_file = Absent
    /\ log = <<>>
    /\ pc = "stopped"
    /\ mode = "run"
    /\ session = NoSession
    /\ observations = <<>>
    /\ offset = 0
    /\ role = "none"
    /\ response = NoResponse
    /\ metrics_data = [events |-> 0]
    /\ io = <<>>
    /\ starts = 0
    /\ outcome = "none"
    /\ calls = <<>>
    /\ resumeFrom = -1
    /\ roundTrips = 0
    /\ planSaved = FALSE
    /\ crashedAfterPlan = FALSE
    /\ lostAt = 0
    /\ done = Absent
    /\ doneResumes = 0

OrchNext ==
    \/ StartRun \/ StartResume \/ Crash \/ IOStep
    \/ AskPrompt \/ AskGateway \/ AskGatewayFails
    \/ create_plan \/ PlannerFinish
    \/ execute \/ ExecNext \/ ExecRecord \/ ExecAdvance \/ ExecComplete
    \/ review \/ ReviewFinish
    \/ resume \/ ResumeFails \/ ResumeExecute \/ ResumeReview
    \/ Return

\* PolicyManager.__post_init__: the first reload() has loaded the documents.
PolicyInit(first, dir) ==
    /\ _lock = "none"
    /\ _tool_calls = 0
    /\ _token_usage = 0
    /\ tools_policy \in first.tools
    /\ network_policy \in first.network
    /\ paths_policy \in first.paths
    /\ frame = [t \in Threads |-> Idle]
    /\ result = [t \in Threads |-> NoResult]
    /\ handler = "idle"
    /\ ops = 0
    /\ reloads = 0
    /\ failedReloads = 0
    /\ installed = { [tools |-> tools_policy, network |-> network_policy,
                       paths |-> paths_policy] }
    /\ policy_dir = dir
    /\ entered = 0
    /\ added = 0
    /\ addedTokens = 0
    /\ passed = 0

NoDocs == [tools |-> {NoToolsDoc}, network |-> {NoNetworkDoc}, paths |-> {NoPathsDoc}]
NoPolicies == PolicyInit(NoDocs, NoDocs)

\* MCPClientManager.__post_init__
McpInit(limits, transports, sinks) ==
    /\ now = 0
    /\ _endpoints \in [Endpoints -> { MCPServerProfile(tr, l) : tr \in transports,
                                                                l \in limits }]
    /\ state \in sinks
    /\ _limiters = [e \in Endpoints |-> RateLimiter(_endpoints[e].rate_limit_per_minute)]
    /\ report = [e \in {} |-> 0]
    /\ mcall = [t \in Threads |-> NoCall]
    /\ probed = {}
    /\ _states = [e \in Endpoints |-> EndpointState]
    /\ mcp_log = <<>>
    /\ reply = [endpoint |-> "", at |-> 0, how |-> "none"]
    /\ history = <<>>
    /\ invokes = 0

Unlimited == McpInit({0}, {"http"}, {TRUE})

Init == OrchInit /\ NoPolicies /\ Unlimited /\ ToolInit
Next == OrchNext
Spec == Init /\ [][Next]_vars

(***************************************************************************)
(* The PolicyManager under concurrent callers and reload signals.          *)
(***************************************************************************)
ReloadNext ==
    \/ Signal \/ ReloadAcquire \/ LoadTools \/ LoadNetwork \/ LoadPaths \/ ReloadFinish

PolicyNext ==
    \/ \E t \in Threads :
          \/ authorize_tool(t) \/ record_tokens(t)
          \/ Acquire(t) \/ ReadCounter(t) \/ WriteCounter(t) \/ CheckBudget(t)
    \/ ReloadNext

BudgetDocs == [NoDocs EXCEPT !.tools = ToolsDocs]
InitPolicy == OrchInit /\ PolicyInit(BudgetDocs, BudgetDocs) /\ Unlimited /\ ToolInit
SpecPolicy == InitPolicy /\ [][PolicyNext]_vars

(***************************************************************************)
(* The Guardrails reading the rule sets while reload signals arrive.       *)
(***************************************************************************)
GuardNext ==
    \/ \E t \in Threads :
          \/ check_command(t) \/ ensure_workspace_path(t)
          \/ CommandAllowed(t) \/ NetworkAllowed(t)
          \/ BlockedGlobs(t) \/ AllowedGlobs(t)
    \/ ReloadNext

RuleDocs == [tools |-> CommandDocs, network |-> NetworkDocs, paths |-> PathsDocs]
InitGuard == OrchInit /\ PolicyInit(NoDocs, RuleDocs) /\ Unlimited /\ ToolInit
SpecGuard == InitGuard /\ [][GuardNext]_vars

(***************************************************************************)
(* ensure_workspace_path alone, while reloads replace paths.yaml.          *)
(***************************************************************************)
PathsNext ==
    \/ \E t \in Threads :
          ensure_workspace_path(t) \/ BlockedGlobs(t) \/ AllowedGlobs(t)
    \/ ReloadNext

PathRuleDocs == [NoDocs EXCEPT !.paths = PathsDocs]
InitPaths == OrchInit /\ PolicyInit(NoDocs, PathRuleDocs) /\ Unlimited /\ ToolInit
SpecPaths == InitPaths /\ [][PathsNext]_vars

(***************************************************************************)
(* Sequential invoke calls against a rate-limited endpoint.                *)
(***************************************************************************)
McpNext == Tick \/ invoke

InitMcp == OrchInit /\ NoPolicies /\ McpInit(Limits, Transports, BOOLEAN) /\ ToolInit
SpecMcp == InitMcp /\ [][McpNext]_vars

(***************************************************************************)
(* Health probes between the invokes.                                      *)
(***************************************************************************)
HealthNext == health_report \/ invoke \/ Tick

InitHealth == OrchInit /\ NoPolicies /\ McpInit({1}, Transports, {TRUE}) /\ ToolInit
SpecHealth == InitHealth /\ [][HealthNext]_vars

(***************************************************************************)
(* Overlapping invoke calls against a rate-limited endpoint.               *)
(***************************************************************************)
McpRaceNext ==
    \/ Tick
    \/ \E t \in Threads :
          \/ AllowEnter(t) \/ TrimTest(t) \/ TrimPop(t) \/ FullTest(t)
          \/ AppendEvent(t) \/ Refuse(t) \/ Admit(t) \/ Dispatch(t)

InitMcpRace == OrchInit /\ NoPolicies /\ McpInit({1, 2}, {"http"}, {TRUE}) /\ ToolInit
SpecMcpRace == InitMcpRace /\ [][McpRaceNext]_vars

(***************************************************************************)
(* Checkpoints saved and loaded through one StateManager.                  *)
(***************************************************************************)
StoreNext == save \/ load
InitStore == OrchInit /\ NoPolicies /\ Unlimited /\ ToolInit
SpecStore == InitStore /\ [][StoreNext]_vars

(***************************************************************************)
(* Tools invoked one after the other under a budget and an allowlist.      *)
(***************************************************************************)
InvokerNext == ToolInvoker_invoke \/ _record_usage
InitInvoker == OrchInit /\ PolicyInit(BudgetDocs, BudgetDocs) /\ Unlimited /\ ToolInit
SpecInvoker == InitInvoker /\ [][InvokerNext]_vars

(***************************************************************************)
(* The local tools invoked one after the other under every rule set.       *)
(***************************************************************************)
ToolRunDocs ==
    { NoToolsDoc,
      ToolsDoc(1, 0, 0, 0, TRUE, << <<"git", "status">>, <<"ls">> >>, {}),
      ToolsDoc(0, 0, 0, 0, FALSE, <<>>, {"read"}) }
ToolRunRules == [tools |-> ToolRunDocs, network |-> NetworkDocs, paths |-> PathsDocs]
ToolsNext == invoke_local
InitTools == OrchInit /\ PolicyInit(ToolRunRules, ToolRunRules) /\ Unlimited /\ ToolInit
SpecTools == InitTools /\ [][ToolsNext]_vars

(***************************************************************************)
(* One run of the gateway, under every tools.yaml of the budget documents. *)
(***************************************************************************)
GatewayNext == gateway_run \/ _request_with_retry \/ gateway_tool_call \/ gateway_finish
InitGateway == OrchInit /\ PolicyInit(BudgetDocs, BudgetDocs) /\ Unlimited /\ ToolInit
SpecGateway == InitGateway /\ [][GatewayNext]_vars

(***************************************************************************)
(* Properties of the orchestrator.                                         *)
(***************************************************************************)
SessionOnDisk == checkpoints["session"].kind = "data"
DiskSession == checkpoints["session"].data
IsExecutorCall(c) == c.role = "executor"
ExecutorCalls == SelectSeq(calls, IsExecutorCall)
WellFormed(s) ==
    /\ s.current_step <= Len(s.plan_steps)
    /\ Len(s.observations) = s.current_step

\* C1: current_step never exceeds len(plan_steps), in memory and in every
\* "session" checkpoint (written or about to be written), and
\* len(observations) = current_step right after each Executor step (the head
\* of the loop) and in every "session" checkpoint.
C1_SessionInvariant ==
    /\ session.current_step <= Len(session.plan_steps)
    /\ pc = "exec_loop" => WellFormed(session)
    /\ SessionOnDisk => WellFormed(DiskSession)
    /\ \A i \in 1..Len(io) :
          (io[i].op = "write" /\ io[i].file = "session") => WellFormed(io[i].data)

\* An Executor step completed after a resume from a checkpoint with steps done.
C1_Witness ==
    /\ mode = "resume" /\ resumeFrom = 1
    /\ SessionOnDisk /\ DiskSession.current_step = 2
    /\ pc = "exec_loop" /\ io = <<>> /\ session.current_step = 2

\* C2: resume() from a checkpoint with current_step = k issues its executor
\* calls for the steps k, k+1, ... in that order, none below k and none past
\* the plan, and has called every one of them when execute returns.
C2_ResumeStartsAtCurrentStep ==
    (mode = "resume" /\ resumeFrom >= 0) =>
        /\ \A i \in 1..Len(ExecutorCalls) :
              /\ ExecutorCalls[i].step = resumeFrom + i - 1
              /\ pc # "stopped" => ExecutorCalls[i].step < Len(session.plan_steps)
        /\ pc \in {"resume_review", "review", "return"} =>
              Len(ExecutorCalls) = Len(session.plan_steps) - resumeFrom

\* resume() picked up after step 1 of a two-step plan and executed the rest.
C2_Witness ==
    /\ mode = "resume" /\ resumeFrom = 1 /\ pc = "resume_review"
    /\ Len(session.plan_steps) = 2
    /\ Len(ExecutorCalls) = 1

IsPlanOrExecCall(c) == c.role \in {"planner", "executor"}

\* C3: once the run is Done, a further resume() calls neither the planner nor
\* the executor, and the "session" checkpoint keeps its current_step,
\* plan_steps and observations.
C3_ResumeAfterDoneIdempotent ==
    done # Absent =>
        /\ SessionOnDisk
        /\ DiskSession.current_step = done.data.current_step
        /\ DiskSession.plan_steps = done.data.plan_steps
        /\ DiskSession.observations = done.data.observations
        /\ doneResumes > 0 => SelectSeq(calls, IsPlanOrExecCall) = <<>>

\* A resume() after Done has returned.
C3_Witness ==
    /\ done # Absent /\ doneResumes > 0 /\ pc = "stopped" /\ outcome = "ok"

\* C4: a resume() that follows a crash after the plan was checkpointed starts,
\* loads the session, and finds current_step >= (executor round-trips
\* completed before the crash) - 1.
C4_CrashLosesAtMostInFlightStep ==
    (crashedAfterPlan /\ mode = "resume" /\ outcome # "crashed") =>
        /\ outcome = "running"
        /\ resumeFrom # -1 => resumeFrom >= lostAt - 1

\* C5: when the run is Done the "session" checkpoint has current_step =
\* len(plan_steps) and one observation per plan step, in plan order.
C5_DoneHasEveryObservationOnce ==
    done # Absent =>
        /\ SessionOnDisk
        /\ DiskSession.current_step = Len(DiskSession.plan_steps)
        /\ Len(DiskSession.observations) = Len(DiskSession.plan_steps)
        /\ \A i \in 1..Len(DiskSession.observations) :
              DiskSession.observations[i].to = i

\* Done through a crash in the middle of a two-step plan and a resume().
C5_Witness ==
    /\ done # Absent /\ mode = "resume" /\ resumeFrom = 1
    /\ Len(done.data.plan_steps) = 2

(***************************************************************************)
(* Properties of the PolicyManager.                                        *)
(***************************************************************************)
ToolResults == { result[t] : t \in { u \in Threads : result[u].op = "authorize_tool" } }

\* C6: with max_tool_calls = N configured, a call of authorize_tool for a
\* permitted tool succeeds exactly when it is one of the first N calls since
\* the last completed load or reload, so the (N+1)-th raises PolicyViolation;
\* a completed reload leaves the counter at zero, so the next call is the
\* first again.
C6_BudgetAllowsFirstN ==
    /\ \A r \in ToolResults :
          (r.limit # 0 /\ r.permitted) => (r.ok <=> r.ord <= r.limit)
    /\ entered = 0 => _tool_calls = 0

\* The (N+1)-th call was rejected, a reload completed, and the next call was
\* admitted as the first.
C6_Witness ==
    \E r1 \in ToolResults, r2 \in ToolResults :
        /\ r1.permitted /\ r1.limit # 0 /\ r1.ord = r1.limit + 1
        /\ ~r1.ok /\ r1.why = "budget"
        /\ r2.epoch > r1.epoch
        /\ r2.permitted /\ r2.limit # 0 /\ r2.ord = 1 /\ r2.ok

\* C7: the check-and-increment of authorize_tool and record_tokens is atomic
\* under concurrent callers: the counters hold every increment made since the
\* last reload (no update is lost), at most one caller is inside the
\* increment at a time, and no more than N calls pass between two reloads.
C7_CheckAndIncrementAtomic ==
    /\ _tool_calls = added
    /\ _token_usage = addedTokens
    /\ Cardinality({ t \in Threads : frame[t].pc \in {"read", "write", "check"} }) <= 1
    /\ LET N == _budget(tools_policy, "max_tool_calls") IN N # 0 => passed <= N

\* Two callers contend: one is between its read and its write of the counter
\* while the other waits for the lock, the budget having been used up to N - 1.
C7_Witness ==
    /\ frame["worker"].pc = "write" /\ frame["worker"].op = "authorize_tool"
    /\ frame["main"].pc = "acquire" /\ frame["main"].op = "authorize_tool"
    /\ _lock = "worker"
    /\ _budget(tools_policy, "max_tool_calls") = passed + 1

\* C8: a reload signal that arrives while authorize_tool or record_tokens is
\* inside its critical section does not deadlock: whenever the handler waits
\* for the lock, the thread that holds it can still run to release it.  This
\* includes the handler running on the thread that holds the lock.
C8_ReloadNeverWaitsOnItsOwnThread ==
    (handler = "acquire" /\ _lock \in Threads) => CanRun(_lock)

(***************************************************************************)
(* Properties of the Guardrails.                                           *)
(***************************************************************************)
\* C9: no Guardrail check sees a mix of old and new rules: once every reload
\* has run to its end with well-formed documents, the allowed commands and the network flag a
\* check_command call read come from one installed rule set, and the blocked
\* and allowed globs an ensure_workspace_path call read come from one path
\* document.
C9_ChecksSeeOneRuleSet ==
    (failedReloads = 0 /\ handler = "idle") =>
        \A t \in Threads :
            LET r == result[t] IN
            /\ (r.op = "check_command" /\ r.reads = 2) =>
                   \E g \in installed : g.tools = r.read1 /\ g.network = r.read2
            /\ (r.op = "ensure_workspace_path" /\ r.reads = 2) => r.read1 = r.read2

(***************************************************************************)
(* Properties of the rate limiter.                                         *)
(***************************************************************************)
\* The invokes before the last one that were admitted in the 60 seconds up
\* to time t.
AdmittedBefore(t) ==
    { i \in 1..(Len(history) - 1) : history[i].admitted /\ history[i].at >= t - Window }

\* C10: with a limit of N per minute and sequential calls, an invoke is
\* refused with the rate-limit error exactly when N invokes were admitted in
\* the 60 seconds before it; a refused invoke leaves throttled = true, an
\* admitted one leaves throttled = false, also when it follows a refusal
\* once the window has passed.
C10_RateLimitWindow ==
    \A e \in Endpoints :
        (reply.how # "none" /\ reply.endpoint = e) =>
            LET N == _limiters[e].limit
                full == N # 0 /\ Cardinality(AdmittedBefore(reply.at)) >= N
            IN /\ (reply.how = "rate limit exceeded") <=> full
               /\ _states[e].throttled <=> full

\* With N = 1: an invoke is admitted, the next arrives exactly 60 seconds
\* later and is refused, and the one after the window is admitted and clears
\* throttled.
C10_Witness ==
    /\ _limiters["local"].limit = 1
    /\ Len(history) = 3
    /\ history[1].admitted /\ ~history[2].admitted /\ history[3].admitted
    /\ history[2].at = history[1].at + Window
    /\ reply.how = "ok" /\ reply.at = history[3].at
    /\ ~_states["local"].throttled
    /\ _states["local"].total_invocations = 2

\* The invokes of the history that were admitted on endpoint e.
Admitted(e) == { i \in 1..Len(history) : history[i].endpoint = e /\ history[i].admitted }

\* C11: on an endpoint with rate limit N, no interval of 60 seconds holds
\* more than N admitted invokes, whatever the sequence of calls and clock
\* advances, and the limiter's queue never holds more than N timestamps.
C11_AtMostNPerWindow ==
    \A e \in Endpoints :
        LET N == _limiters[e].limit IN
        N # 0 =>
            /\ \A i \in Admitted(e) :
                  Cardinality({ j \in Admitted(e) :
                                  /\ history[j].at >= history[i].at
                                  /\ history[j].at <= history[i].at + Window }) <= N
            /\ Len(_limiters[e].events) <= N

\* With N = 2: two invokes admitted, the queue full, and a third refused
\* within the same 60 seconds.
C11_Witness ==
    /\ _limiters["local"].limit = 2
    /\ Len(_limiters["local"].events) = 2
    /\ Cardinality(Admitted("local")) = 2
    /\ reply.how = "rate limit exceeded"
    /\ reply.at = history[1].at + Window

\* How often the time x is in the queue of endpoint e, and how often an
\* invoke taken at time x was admitted on it.
Queued(e, x) ==
    Cardinality({ k \in 1..Len(_limiters[e].events) : _limiters[e].events[k] = x })
AdmittedAt(e, x) == Cardinality({ i \in Admitted(e) : history[i].at = x })
\* The latest time an invoke on e was taken.
LastCall(e) ==
    LET on == { i \in 1..Len(history) : history[i].endpoint = e } IN
    IF on = {} THEN 0
    ELSE history[CHOOSE i \in on : \A j \in on : history[j].at <= history[i].at].at
Quiet == \A t \in Threads : mcall[t].pc = "idle"

\* C12: overlapping invokes on one endpoint behave as if trim-check-append
\* were one atomic step: once the calls have returned, no 60-second interval
\* holds more than N admitted invokes, the queue holds at most N timestamps,
\* every timestamp in it is that of an admitted invoke (none twice), and no
\* admitted timestamp still inside the window is missing from it.
C12_TrimCheckAppendAtomic ==
    Quiet =>
        \A e \in Endpoints :
            LET N == _limiters[e].limit IN
            N # 0 =>
                /\ \A i \in Admitted(e) :
                      Cardinality({ j \in Admitted(e) :
                                      /\ history[j].at >= history[i].at
                                      /\ history[j].at <= history[i].at + Window }) <= N
                /\ Len(_limiters[e].events) <= N
                /\ \A k \in 1..Len(_limiters[e].events) :
                      LET x == _limiters[e].events[k] IN Queued(e, x) <= AdmittedAt(e, x)
                /\ \A i \in Admitted(e) :
                      history[i].at >= LastCall(e) - Window =>
                          Queued(e, history[i].at) = AdmittedAt(e, history[i].at)

\* The invokes on endpoint e that returned a result.
Succeeded(e) == { i \in 1..Len(history) : history[i].endpoint = e /\ history[i].how = "ok" }

\* C13: total_invocations of an endpoint equals the number of invoke calls
\* on it that completed successfully; calls that fail in the transport, are
\* rate-limited or name an unknown endpoint do not count.
C13_TotalCountsSuccesses ==
    \A e \in Endpoints : _states[e].total_invocations = Cardinality(Succeeded(e))

\* C14: an invoke the rate limiter rejects makes no transport call, logs
\* nothing, adds no timestamp to the window and leaves total_invocations as
\* it was: the only state it changes is throttled, which it sets to true.
C14_RejectionOnlySetsThrottled ==
    [][(invokes' = invokes + 1 /\ reply'.how = "rate limit exceeded") =>
          LET e == reply'.endpoint IN
          /\ _limiters' = _limiters
          /\ _states' = [_states EXCEPT ![e].throttled = TRUE]
          /\ mcp_log' = mcp_log
          /\ history'[Len(history')].dispatched = 0
          /\ UNCHANGED <<now, _endpoints, state, report, probed>>]_vars

\* An invoke was rejected after two were admitted, one of them logged.
C14_Witness ==
    /\ reply.how = "rate limit exceeded"
    /\ _states["local"].throttled
    /\ _states["local"].total_invocations = 2
    /\ Len(_limiters["local"].events) = 2
    /\ Len(mcp_log) = 2
    /\ Len(history) = 3

\* The admitted invokes, in the order they were made.
AdmittedCalls == LET IsAdmitted(h) == h.admitted IN SelectSeq(history, IsAdmitted)

\* C15: each invoke the rate limiter admits dispatches to the transport
\* exactly once and appends exactly one mcp_invoke event, with status "ok"
\* when a result is returned and "error" when the transport fails.
C15_OneDispatchOneEvent ==
    /\ \A i \in 1..Len(AdmittedCalls) : AdmittedCalls[i].dispatched = 1
    /\ Len(mcp_log) = Len(AdmittedCalls)
    /\ \A i \in 1..Len(mcp_log) :
          /\ mcp_log[i].kind = "mcp_invoke"
          /\ i <= Len(AdmittedCalls) => mcp_log[i].status = AdmittedCalls[i].how

\* C16: health_report returns one entry per enabled endpoint whatever the
\* probes meet, and a failed probe (exception, failed subprocess, HTTP error
\* status) leaves the endpoint's health at "error" with the error recorded.
C16_FailedProbeIsError ==
    probed # {} =>
        /\ DOMAIN report = Endpoints
        /\ \A e \in Endpoints :
              report[e].probe \in {"exception", "http_503"} =>
                  /\ report[e].status = "error"
                  /\ report[e].last_error # "None"

\* C17: last_health is always one of unknown, ok, error, unsupported: unknown
\* until the endpoint is first probed, one of the other three afterwards.
C17_HealthStates ==
    \A e \in Endpoints :
        /\ _states[e].last_health \in {"unknown", "ok", "error", "unsupported"}
        /\ _states[e].last_health = "unknown" <=> e \notin probed

(***************************************************************************)
(* Properties of the CheckpointStore.                                      *)
(***************************************************************************)
\* C18: after any sequence of save_checkpoint calls, load_checkpoint(stage)
\* returns without raising exactly the payload saved last under that stage,
\* whatever was saved before it or under other stages, and None for a stage
\* that was never saved; a stage has a file exactly when it was saved.
C18_LoadReturnsLastSaved ==
    /\ \A s \in Stages : store_path[s] = Absent <=> last_saved[s] = Never
    /\ loaded.stage # "" =>
          /\ ~loaded.raised
          /\ loaded.value = IF expected = Never THEN PyNone ELSE expected

\* "session" was saved twice and "plan" once in between or around; the load
\* of "session" returned the second payload, and "review" was never saved.
C18_Witness ==
    /\ saved_count["session"] = 2
    /\ saved_count["plan"] = 1
    /\ last_saved["plan"] = PlanPayload
    /\ last_saved["review"] = Never
    /\ loaded.stage = "session"
    /\ ~loaded.raised
    /\ loaded.value = SessionPayload(<<PyStr("obs")>>, PyNone, 1)
    /\ loaded.value = last_saved["session"]

(***************************************************************************)
(* Properties of the ToolInvoker.                                          *)
(***************************************************************************)
\* The invoke calls made for a tool, and those of them that failed.
CallsOf(n) == { i \in 1..Len(tool_history) : tool_history[i].tool = n }
FailuresOf(n) == { i \in CallsOf(n) : tool_history[i].how # "ok" }

\* C19: every invoke appends tool_invocation_start and then exactly one
\* terminal event before it returns or raises: tool_invocation_complete when
\* the tool returned, tool_invocation_error or policy_violation when the call
\* failed, whatever the cause (budget, allowlist, unknown tool, guardrail,
\* tool error).
C19_StartThenOneTerminal ==
    /\ Len(tool_log) = 2 * Len(tool_history)
    /\ \A i \in 1..Len(tool_history) :
          /\ tool_log[2 * i - 1] = [kind |-> "tool_invocation_start",
                                    tool |-> tool_history[i].tool]
          /\ tool_log[2 * i].tool = tool_history[i].tool
          /\ IF tool_history[i].how = "ok"
             THEN tool_log[2 * i].kind = "tool_invocation_complete"
             ELSE tool_log[2 * i].kind \in {"tool_invocation_error", "policy_violation"}

\* C20: the metric "calls" of a tool equals the number of invoke calls made
\* for it, whatever their outcome, and "errors" the number of them that
\* failed.
C20_MetricsCountEveryCall ==
    \A n \in ToolNames :
        /\ tool_metrics.tools[n].calls = Cardinality(CallsOf(n))
        /\ tool_metrics.tools[n].errors = Cardinality(FailuresOf(n))

\* C21: every PolicyViolation raised - by authorize_tool for the tool-call
\* budget or the allowlist, by record_tokens for the token budget, or inside
\* a tool - is audited before it reaches the caller: the last event in the
\* log when it is raised is the policy_violation event recording it.
C21_ViolationsAuditedFirst ==
    \A i \in 1..Len(violations) :
        /\ violations[i].at > 0
        /\ tool_log[violations[i].at].kind = "policy_violation"

(***************************************************************************)
(* Properties of the local tools.                                          *)
(***************************************************************************)
\* The invokes of a tool that passed authorize_tool and every guardrail
\* check the tool makes.
Cleared(r) ==
    /\ r.auth = "authorized"
    /\ r.built
    /\ r.pathV = "ok"
    /\ r.tool = "shell" => r.cmdV = "ok"

\* C22: a tool's filesystem write or process spawn happens only after
\* authorize_tool and the guardrail check (ensure_workspace_path, and
\* check_command for a spawn) have both succeeded; an invocation rejected by
\* policy or guardrail writes nothing and spawns nothing.
C22_ChecksBeforeEffects ==
    /\ \A k \in 1..Len(tool_runs) :
          LET r == tool_runs[k] IN
          \A i \in 1..Len(r.steps) :
              r.steps[i] \in {"write", "spawn"} =>
                  /\ Cleared(r)
                  /\ \E j \in 1..(i - 1) : r.steps[j] = "ensure_workspace_path"
                  /\ r.steps[i] = "spawn" =>
                        \E j \in 1..(i - 1) : r.steps[j] = "check_command"
    /\ workspace_files =
          { tool_runs[k].path : k \in { n \in 1..Len(tool_runs) :
                                          /\ tool_runs[n].tool = "write"
                                          /\ Cleared(tool_runs[n]) } }
    /\ Len(spawned) =
          Cardinality({ k \in 1..Len(tool_runs) :
                          tool_runs[k].tool = "shell" /\ Cleared(tool_runs[k]) })

\* A write outside the workspace was rejected with nothing written, and a
\* cleared "ls" was spawned.
C22_Witness ==
    /\ Len(tool_runs) = 2
    /\ tool_runs[1].tool = "write" /\ tool_runs[1].pathV = "escape"
    /\ tool_runs[1].auth = "authorized" /\ tool_runs[1].built
    /\ tool_runs[2].tool = "shell" /\ Performs(tool_runs[2].steps, "spawn")
    /\ workspace_files = {}
    /\ spawned = << <<"ls">> >>

(***************************************************************************)
(* Properties of the Guardrails' checks.                                   *)
(***************************************************************************)
\* C23: check_command accepts a non-empty token sequence only if the tokens
\* of some allowed-command entry are a prefix of it (the whole entry, not
\* only its first token): with "git status" allowed, git status is accepted
\* and git commit is rejected.
C23_PrefixMatchOnly ==
    \A t \in Threads :
        LET r == result[t] IN
        (r.op = "check_command" /\ r.ok) =>
            /\ r.arg # <<>>
            /\ LET entries == allowed_commands(r.read1) IN
               \E i \in 1..Len(entries) : entries[i] # <<>> /\ IsPrefix(entries[i], r.arg)

Transient(err) == err \in {"RateLimitError", "InternalServerError"}

\* The delay slept after the i-th failed attempt: 1 second, then doubled.
Backoff(i) == 2 ^ (i - 1)

\* A request makes at most max_retries attempts, nothing follows a
\* success, the i-th sleep is the backoff, and an error met on the last
\* attempt leaves the request.
AttemptsBounded ==
    /\ Len(gw_attempts) <= max_retries
    /\ \A i \in 1..Len(gw_attempts) - 1 : gw_attempts[i] # "ok"
    /\ \A i \in 1..Len(gw_sleeps) : gw_sleeps[i] = Backoff(i)
    /\ gw.pc = "request" => Len(gw_sleeps) = Len(gw_attempts)
    /\ (Len(gw_attempts) = max_retries /\ gw_attempts[max_retries] # "ok") =>
           (gw.pc = "raised" /\ gw.error = gw_attempts[max_retries])

\* C25: a request to the model backend is attempted at most max_retries (3)
\* times, the first response is returned, the delays are 1 s then doubled,
\* the error of the last attempt propagates, and only a transient backend
\* error is followed by another attempt: any other error propagates at once.
C25_BoundedRetryOfTransient ==
    /\ AttemptsBounded
    /\ \A i \in 1..Len(gw_attempts) - 1 : Transient(gw_attempts[i])

\* C27: a tool call that fails with a ToolError does not abort the
\* gateway's run: the error text is the call's output, every call that
\* ended so has its output among those submitted, and no ToolError leaves
\* run.
C27_ToolErrorIsOutput ==
    /\ \A i \in 1..Len(gw_outputs) :
          gw_outputs[i].how = "ToolError" => gw_outputs[i].output = "error"
    /\ Cardinality({i \in 1..Len(tool_history) : tool_history[i].how = "ToolError"})
         = Cardinality({i \in 1..Len(gw_outputs) : gw_outputs[i].how = "ToolError"})
    /\ gw.pc = "raised" => gw.error # "ToolError"

\* A run returned its text after a tool call had failed with a ToolError.
C27_Witness ==
    /\ gw.pc = "returned"
    /\ \E i \in 1..Len(gw_outputs) : gw_outputs[i].how = "ToolError"
    /\ \E i \in 1..Len(tool_log) : tool_log[i].kind = "tool_invocation_error"

(***************************************************************************)
(* A step of the execution that the backend fails.                         *)
(***************************************************************************)
\* C26: when the gateway raises during execution step k (the backend's
\* retries are exhausted), the run stops there and the session checkpoint
\* on disk still is the one written after step k-1: current_step = k-1
\* with k-1 observations; and the first step a resume asks the executor for
\* is the one after the current_step it loaded, so step k is issued again
\* and no completed step is.
C26_FailedStepKeepsCheckpoint ==
    [][ /\ (pc = "gateway" /\ role = "executor" /\ pc' = "stopped" /\ outcome' = "error") =>
            LET file == checkpoints'["session"] IN
            /\ file.kind = "data"
            /\ from_dict(file.data).current_step = offset - 1
            /\ Len(from_dict(file.data).observations) = offset - 1
            /\ start_index(from_dict(file.data)) + 1 = offset
        /\ (mode = "resume" /\ pc = "exec_loop" /\ pc' = "ask"
              /\ ~\E i \in 1..Len(calls) : calls[i].role = "executor") =>
            offset' = resumeFrom + 1 ]_vars

\* The second step of a run failed at the gateway and the checkpoint holds
\* the first step's observation and current_step = 1.
C26_Witness ==
    /\ pc = "stopped" /\ outcome = "error"
    /\ calls # <<>>
    /\ calls[Len(calls)] = [role |-> "executor", step |-> 1]
    /\ checkpoints["session"].kind = "data"
    /\ checkpoints["session"].data.current_step = 1
    /\ Len(checkpoints["session"].data.observations) = 1

(***************************************************************************)
(* Calls to an endpoint that never answers.                                *)
(***************************************************************************)
\* C28: every blocking operation on an endpoint carries a timeout, so no
\* invoke and no health probe is left waiting for ever on a peer (a stdio
\* subprocess) that never answers: the call ends, with status "error".
C28_NoCallBlocksForever == ~Blocked

(***************************************************************************)
(* The token budget.                                                       *)
(***************************************************************************)
\* C29: between reloads record_tokens accumulates: a call raises exactly
\* when the tokens added since the last reset, its own included, exceed
\* max_tokens; after a call has raised, every later call checked against
\* the same budget before the next completed reload raises too; and the
\* usage only ever goes down when reload resets it to zero.
C29_TokenBudgetAccumulates ==
    [][ LET L == _budget(tools_policy, "max_tokens") IN
        /\ \A t \in Threads :
              (frame[t].pc = "check" /\ frame[t].op = "record_tokens"
                 /\ frame'[t].pc = "idle") =>
                 /\ result'[t].ok <=> ~(L # 0 /\ addedTokens > L)
                 /\ \A u \in Threads :
                       (result[u].op = "record_tokens" /\ ~result[u].ok
                          /\ result[u].epoch = Epoch /\ result[u].limit = L)
                       => ~result'[t].ok
        /\ _token_usage' < _token_usage => (handler = "reset" /\ _token_usage' = 0) ]_vars

\* A call raised over the budget, a reload completed, and a call against a
\* budget then passed with the usage counted from zero again.
C29_Witness ==
    /\ result["worker"].op = "record_tokens" /\ ~result["worker"].ok
    /\ result["worker"].why = "budget"
    /\ result["main"].op = "record_tokens" /\ result["main"].ok
    /\ result["main"].limit # 0
    /\ result["main"].epoch > result["worker"].epoch
    /\ _token_usage = addedTokens /\ _token_usage > 0

(***************************************************************************)
(* What a reader of metrics.json sees.                                     *)
(***************************************************************************)
\* C30: once metrics.json has been written, a reader always gets a complete
\* snapshot, the metrics as they were after some completed mutation, never
\* an empty or partial document: also while a write is under way and after
\* the writer crashed in the middle of one.
C30_ReaderSeesSnapshot ==
    metrics_file # Absent =>
        /\ metrics # EmptyDocument
        /\ metrics.events >= 1

(***************************************************************************)
(* The audit log and the events counter.                                   *)
(***************************************************************************)
\* The lines and the increments that the statement under way still owes.
LinesDue(q) == Cardinality({ i \in 1..Len(q) : q[i].op = "append" })
CountsDue(q) ==
    Cardinality({ i \in 1..Len(q) : q[i].op = "truncate" /\ q[i].file = "metrics" })

\* C31: the audit log only grows, by one line at its end per append_event
\* call, lines already written stay as they are, and every call raises the
\* events counter by exactly one: within a process the lines written or due
\* and the counts made or due move together.
C31_OneLineOneCountPerEvent ==
    [][ /\ log' # log =>
             /\ Len(log') = Len(log) + 1
             /\ SubSeq(log', 1, Len(log)) = log
        /\ (pc # "stopped" /\ pc' # "stopped") =>
             (Len(log') + LinesDue(io')) - (metrics_data'.events + CountsDue(io'))
               = (Len(log) + LinesDue(io)) - (metrics_data.events + CountsDue(io)) ]_vars

\* A run has made its three first append_event calls: three lines, in the
\* order of the calls, and a counter of three.
C31_Witness ==
    /\ pc # "stopped" /\ io = <<>> /\ starts = 1
    /\ log = <<"agent_prompt", "agent_response", "plan_created">>
    /\ metrics_data.events = 3

(***************************************************************************)
(* The review.                                                             *)
(***************************************************************************)
IsReviewerCall(c) == c.role = "reviewer"

\* C32: in every run() and resume() the reviewer is asked only when
\* current_step = len(plan_steps), at most once per call of run()/resume(),
\* and a review that is through has replaced the one latest_review record
\* with its own payload.
C32_OneReviewAfterAllSteps ==
    /\ (pc # "stopped" /\ role = "reviewer") =>
           session.current_step = Len(session.plan_steps)
    /\ Len(SelectSeq(calls, IsReviewerCall)) <= 1
    /\ (pc = "stopped" /\ outcome = "ok" /\ SelectSeq(calls, IsReviewerCall) # <<>>) =>
           /\ latest_review.kind = "data"
           /\ latest_review = checkpoints["review"]
           /\ latest_review.data.summary = checkpoints["session"].data.summary

\* A resume() that had one step left to execute has asked the reviewer and
\* written its review over the one of an earlier run.
C32_Witness ==
    /\ pc = "stopped" /\ outcome = "ok" /\ mode = "resume" /\ resumeFrom = 1
    /\ SelectSeq(calls, IsReviewerCall) # <<>>
    /\ latest_review.kind = "data"

(***************************************************************************)
(* resume() with nothing to resume.                                        *)
(***************************************************************************)
\* C33: resume() on a run without a "session" checkpoint raises and does
\* nothing else: no model call is issued, no checkpoint or other file is
\* written and no audit event is appended.
C33_ResumeWithoutCheckpointOnlyFails ==
    [][ (pc = "resume" /\ checkpoints["session"] = Absent /\ outcome' # "crashed") =>
          /\ pc' = "stopped" /\ outcome' = "no_checkpoint"
          /\ calls = <<>> /\ calls' = <<>>
          /\ io = <<>> /\ io' = <<>>
          /\ UNCHANGED diskVars ]_vars

\* A run crashed before the planner's session checkpoint was written; the
\* resume() that followed failed and the log is the one the run left.
C33_Witness ==
    /\ pc = "stopped" /\ outcome = "no_checkpoint" /\ mode = "resume"
    /\ checkpoints["session"] = Absent
    /\ log = <<"agent_prompt">>
    /\ calls = <<>>

\* C34: a resume() of a run that is already Done asks the reviewer again
\* and rewrites latest_review, and does nothing else: it returns having
\* made the reviewer's call and no other.
C34_ResumeOfDoneReviewsAgain ==
    (pc = "stopped" /\ outcome = "ok" /\ mode = "resume" /\ doneResumes > 0) =>
        /\ Len(SelectSeq(calls, IsReviewerCall)) = 1
        /\ SelectSeq(calls, IsPlanOrExecCall) = <<>>

\* C35: every "session" checkpoint the planner writes, or has queued to write,
\* has at least one plan step, and resume() never takes its re-plan branch
\* for a checkpoint the program wrote.
C35_PlannerCheckpointHasSteps ==
    /\ \A i \in 1..Len(io) :
          (io[i].op = "write" /\ io[i].file = "session") => io[i].data.plan_steps # <<>>
    /\ checkpoints["session"].kind = "data" => checkpoints["session"].data.plan_steps # <<>>
    /\ (mode = "resume" /\ pc \notin {"resume", "stopped"}) => ~NeedsPlan(session)
    /\ ~(mode = "resume" /\ pc = "create_plan")

\* A resume() has loaded the checkpoint the planner wrote from a blank reply
\* and goes on to execute its one fallback step.
C35_Witness ==
    /\ mode = "resume" /\ pc = "resume_execute" /\ resumeFrom = 0
    /\ planSaved
    /\ session.plan_steps = <<"Review goal">>
    /\ checkpoints["session"].kind = "data"
    /\ checkpoints["session"].data.plan_steps = <<"Review goal">>

\* C36: between reloads the tool-call counter equals the number of
\* authorize_tool calls made since the last reset, the rejected ones
\* included: whenever no call is between taking the lock and writing the
\* counter, _tool_calls is the number of calls that entered, and a call that
\* was rejected (over budget or not in the allowlist) is still counted.
C36_RejectedCallsAreCounted ==
    /\ (\A t \in Threads : ~(frame[t].op = "authorize_tool" /\ frame[t].pc \in {"read", "write"}))
          => _tool_calls = entered
    /\ \A r \in ToolResults : (~r.ok /\ r.epoch = Epoch) => _tool_calls >= r.ord

\* Two calls were made since the last reset, one of them rejected because the
\* tool is not in the allowlist and one rejected over budget, and the counter
\* reads two.
C36_Witness ==
    /\ \A t \in Threads : frame[t].pc = "idle"
    /\ \E r1 \in ToolResults, r2 \in ToolResults :
          /\ ~r1.ok /\ r1.why = "not_permitted" /\ r1.epoch = Epoch
          /\ ~r2.ok /\ r2.why = "budget" /\ r2.epoch = Epoch
    /\ entered = 2 /\ _tool_calls = 2

\* C37: a reload() that fails on a malformed document leaves the
\* PolicyManager as it was: whenever no reload is running, the three rule
\* sets in force are together one of the rule sets a completed load or
\* reload installed (no reload is partially applied).
C37_FailedReloadChangesNothing ==
    handler = "idle" =>
        [tools |-> tools_policy, network |-> network_policy, paths |-> paths_policy]
            \in installed

\* The responses 1..n in the order they were received.
RECURSIVE UpTo(_)
UpTo(n) == IF n = 0 THEN <<>> ELSE Append(UpTo(n - 1), n)

\* C38: a run of the Responses flow ends after at most max_tool_iterations
\* submissions of tool outputs, and the text it returns holds the messages of
\* every response the backend gave during the call, the last one included.
C38_ReturnsEveryResponseText ==
    (gw.flow = "responses" /\ gw.pc \in {"finish", "returned"}) =>
        /\ gw.submits <= max_tool_iterations
        /\ gw.final_text = UpTo(gw.received)

\* C39: every run that is Done, whether by one run() or by a crash and a
\* resume(), has its "execution" checkpoint on disk and an
\* execution_complete event in the log ahead of every review_summary event.
C39_DoneHasExecutionRecord ==
    done # Absent =>
        /\ checkpoints["execution"].kind = "data"
        /\ \E i \in 1..Len(log) :
              /\ log[i] = "execution_complete"
              /\ \A j \in 1..Len(log) : log[j] = "review_summary" => i < j

\* The fields of an EndpointState that a probe writes, and those that invoke
\* writes.
HealthFields(es) == <<es.last_health, es.last_latency_ms, es.last_error>>
ThrottleFields(es) == <<es.throttled, es.total_invocations>>

\* C40: health and throttling are independent: a step that is not an invoke
\* (a health probe, or time passing) leaves every rate limiter and every
\* endpoint's throttled and total_invocations as they were, and an invoke,
\* however it ends, leaves every endpoint's last_health, last_latency_ms and
\* last_error as they were.
C40_HealthAndThrottleIndependent ==
    [][ /\ invokes' = invokes =>
              /\ _limiters' = _limiters
              /\ \A e \in Endpoints : ThrottleFields(_states'[e]) = ThrottleFields(_states[e])
        /\ invokes' # invokes =>
              \A e \in Endpoints : HealthFields(_states'[e]) = HealthFields(_states[e])
      ]_vars

\* A probe that failed reported the endpoint as throttled, and an invoke
\* admitted after it left the probe's findings in place.
C40_Witness ==
    /\ "local" \in probed
    /\ report["local"].throttled /\ report["local"].status = "error"
    /\ _states["local"].total_invocations > report["local"].total_invocations
    /\ ~_states["local"].throttled
    /\ HealthFields(_states["local"]) = <<"error", "None", "exc">>

====
